---- MODULE Spec2Model ----
(***************************************************************************)
(* State-machine model of the crypto price tracker backend:                *)
(*   - CircuitBreaker   (utils/circuit-breaker)                            *)
(*   - RateLimiter      (utils/rate-limiter)                               *)
(*   - WebSocketManager (services/websocket-manager)                       *)
(*   - BrowserManager   (services/browser-manager)                         *)
(*   - PriceScraper     (services/price-scraper)                           *)
(*   - subscribeTicker / unsubscribeTicker (services/crypto-stream-service)*)
(* Time is Date.now() in milliseconds.  Asynchronous handlers are split at *)
(* their awaits; the code between two awaits is one atomic step.           *)
(***************************************************************************)
EXTENDS Integers, Sequences, FiniteSets, TLC

VARIABLES
    now,            \* Date.now()
    circuits,       \* CircuitBreaker.circuits : name -> CircuitStats
    failures,       \* CircuitBreaker.failures : name -> FailureRecord[]
    cbLast,         \* observation: the last circuit-breaker call and its result
    openedAt,       \* observation: when a CLOSED circuit reached its threshold
    permits,        \* observation: executions permitted in the current half-open episode
    rlClients,      \* RateLimiter.clients : clientId -> ClientRateLimit
    clients,        \* WebSocketManager.clients : clientId -> ClientSubscription
    tickerSubscribers, \* WebSocketManager.tickerSubscribers : ticker -> Set<clientId>
    wsUsedIds,      \* client ids generateClientId has handed out
    wsOpen,         \* connections whose ws.readyState is OPEN
    hubLast,        \* observation: the last push-channel request and its outcome
    deniedOnce,     \* observation: clients the window check has denied
    activeSubscriptions, \* crypto-stream-service: Set<ticker>
    activeScrapers, \* crypto-stream-service: ticker -> PriceScraper
    scrapers,       \* the PriceScraper objects
    browsers,       \* BrowserManager.browsers : browserId -> BrowserInstance
    instances,      \* the BrowserInstance objects
    pageObjs,       \* the Page objects of the browser engine
    cleanupTimeout, \* BrowserManager.cleanupTimeout : browserId -> timer handle
    timers,         \* pending setTimeout handles
    closing,        \* timer callbacks awaiting context.close() / browser.close()
    calls,          \* subscribeTicker / unsubscribeTicker calls, split at their awaits
    callObs,        \* observation: what each call in flight found and did
    lastDone,       \* observation: the call that returned last, with its response
    faults          \* environment failures injected so far

cbVars == <<circuits, failures>>
cbObs == <<cbLast, openedAt, permits>>
hubVars == <<rlClients, clients, tickerSubscribers, wsUsedIds, wsOpen, hubLast, deniedOnce>>
poolVars == <<browsers, instances, pageObjs, cleanupTimeout, timers, closing>>
coVars == <<activeSubscriptions, activeScrapers, scrapers, calls, callObs, lastDone,
            faults>>
vars == <<now, circuits, failures, cbLast, openedAt, permits,
          rlClients, clients, tickerSubscribers, wsUsedIds, wsOpen, hubLast,
          deniedOnce, activeSubscriptions, activeScrapers, scrapers, browsers,
          instances, pageObjs, cleanupTimeout, timers, closing, calls, callObs,
          lastDone, faults>>

\* ------------------------------------------------------------------------
\* Bounds of the model
\* ------------------------------------------------------------------------
TickMs == 15000
MaxTime == 90000
MaxRequests == 9
MaxAttempts == 31
SlowTickMs == 30000
MaxCalls == 3
MaxInFlight == 2
MaxSeqCalls == 4
MaxPageFailures == 5
CoMaxTime == 30000
MaxFaults == 1
MaxTickers == 21

MaxFillCalls == 6
MaxMonCalls == 2
MaxDetections == 2
MaxStops == 2
MaxValCalls == 3
MaxDownCalls == 3
MaxIdxAttempts == 3
IdleMs == 1000000
MaxIdleTime == 2000000
MaxHubAttempts == 3
QuietMs == 90000
MaxFailing == 1

\* ------------------------------------------------------------------------
\* Generic helpers
\* ------------------------------------------------------------------------
Max2(a, b) == IF a >= b THEN a ELSE b

Min2(a, b) == IF a <= b THEN a ELSE b

\* Math.ceil(a / b) for b > 0
CeilDiv(a, b) == -((-a) \div b)

\* The map m without key k / with key k bound to v
MapDelete(m, k) == [x \in (DOMAIN m) \ {k} |-> m[x]]

MapSet(m, k, v) == [x \in (DOMAIN m) \cup {k} |-> IF x = k THEN v ELSE m[x]]

\* An insertion-ordered Set, kept as a sequence without duplicates
SetAdd(q, x) == IF \E i \in 1..Len(q) : q[i] = x THEN q ELSE Append(q, x)

SetDelete(q, x) == LET Keep(y) == y # x IN SelectSeq(q, Keep)

SetHas(q, x) == \E i \in 1..Len(q) : q[i] = x

\* Strings are sequences of character codes.
toUpperCase(str) ==
    [i \in 1..Len(str) |-> IF str[i] >= 97 /\ str[i] <= 122 THEN str[i] - 32 ELSE str[i]]

IsSpace(ch) == ch \in {9, 10, 11, 12, 13, 32}

RECURSIVE trimStart(_)
trimStart(str) ==
    IF str # <<>> /\ IsSpace(Head(str)) THEN trimStart(Tail(str)) ELSE str

RECURSIVE trimEnd(_)
trimEnd(str) ==
    IF str # <<>> /\ IsSpace(str[Len(str)])
    THEN trimEnd(SubSeq(str, 1, Len(str) - 1))
    ELSE str

trim(str) == trimEnd(trimStart(str))

\* ticker.toUpperCase().trim()
Normalize(ticker) == trim(toUpperCase(ticker))

\* ------------------------------------------------------------------------
\* CircuitBreaker
\* ------------------------------------------------------------------------
CircuitNames == {"browser-browser-0", "browser-browser-1", "browser-browser-2"}

circuitConfigs ==
    [browser   |-> [failureThreshold |-> 5, recoveryTimeout |-> 30000,
                    halfOpenMaxRequests |-> 3, windowSizeMs |-> 60000],
     websocket |-> [failureThreshold |-> 10, recoveryTimeout |-> 15000,
                    halfOpenMaxRequests |-> 5, windowSizeMs |-> 30000],
     system    |-> [failureThreshold |-> 3, recoveryTimeout |-> 60000,
                    halfOpenMaxRequests |-> 2, windowSizeMs |-> 120000]]

\* String.includes over the circuit names the program uses.
NameIncludes(circuitName, sub) ==
    <<circuitName, sub>> \in
        ({"browser-browser-0", "browser-browser-1", "browser-browser-2"}
            \X {"browser", "ws"})

getConfig(circuitName) ==
    IF NameIncludes(circuitName, "browser") \/ NameIncludes(circuitName, "playwright")
    THEN circuitConfigs.browser
    ELSE IF NameIncludes(circuitName, "websocket") \/ NameIncludes(circuitName, "ws")
         THEN circuitConfigs.websocket
         ELSE circuitConfigs.system

NewCircuit ==
    [state |-> "CLOSED", failureCount |-> 0, successCount |-> 0,
     lastFailureTime |-> 0, nextRetryTime |-> 0, totalRequests |-> 0]

\* cb is a record [circuits, failures]: the two maps of the breaker.
getOrCreateCircuit(cb, circuitName) ==
    IF circuitName \in DOMAIN cb.circuits
    THEN cb
    ELSE [cb EXCEPT !.circuits =
            [n \in (DOMAIN cb.circuits) \cup {circuitName} |->
                IF n = circuitName THEN NewCircuit ELSE cb.circuits[n]]]

\* this.failures.get(circuitName) || []
FailuresOf(cb, circuitName) ==
    IF circuitName \in DOMAIN cb.failures THEN cb.failures[circuitName] ELSE <<>>

IsRecent(f, cutoffTime) == f.timestamp >= cutoffTime

getRecentFailures(cb, circuitName, t) ==
    LET cutoffTime == t - getConfig(circuitName).windowSizeMs
        Keep(f) == IsRecent(f, cutoffTime)
    IN SelectSeq(FailuresOf(cb, circuitName), Keep)

cleanupOldFailures(cb, circuitName, t) ==
    IF circuitName \in DOMAIN cb.failures
    THEN [cb EXCEPT !.failures[circuitName] = getRecentFailures(cb, circuitName, t)]
    ELSE cb

\* canExecute returns [cb, allowed].
canExecute(cb0, circuitName, t) ==
    LET cb == getOrCreateCircuit(cb0, circuitName)
        circuit == cb.circuits[circuitName]
    IN CASE circuit.state = "CLOSED" -> [cb |-> cb, allowed |-> TRUE]
         [] circuit.state = "OPEN" ->
                IF t >= circuit.nextRetryTime
                THEN [cb |-> [cb EXCEPT !.circuits[circuitName].state = "HALF_OPEN",
                                        !.circuits[circuitName].successCount = 0],
                      allowed |-> TRUE]
                ELSE [cb |-> cb, allowed |-> FALSE]
         [] circuit.state = "HALF_OPEN" ->
                [cb |-> cb,
                 allowed |-> circuit.successCount
                                < getConfig(circuitName).halfOpenMaxRequests]

\* Variant: closes on the success count alone, whatever the state.
recordSuccess_anyState(cb0, circuitName, t) ==
    LET cb1 == getOrCreateCircuit(cb0, circuitName)
        cb2 == [cb1 EXCEPT !.circuits[circuitName].successCount = @ + 1,
                           !.circuits[circuitName].totalRequests = @ + 1]
        circuit == cb2.circuits[circuitName]
    IN IF circuit.successCount >= getConfig(circuitName).halfOpenMaxRequests
       THEN cleanupOldFailures(
                [cb2 EXCEPT !.circuits[circuitName].state = "CLOSED",
                            !.circuits[circuitName].failureCount = 0],
                circuitName, t)
       ELSE cb2

recordSuccess(cb0, circuitName, t) ==
    LET cb1 == getOrCreateCircuit(cb0, circuitName)
        cb2 == [cb1 EXCEPT !.circuits[circuitName].successCount = @ + 1,
                           !.circuits[circuitName].totalRequests = @ + 1]
        circuit == cb2.circuits[circuitName]
    IN IF circuit.state = "HALF_OPEN"
          /\ circuit.successCount >= getConfig(circuitName).halfOpenMaxRequests
       THEN cleanupOldFailures(
                [cb2 EXCEPT !.circuits[circuitName].state = "CLOSED",
                            !.circuits[circuitName].failureCount = 0],
                circuitName, t)
       ELSE cb2

\* Variant: opens without adding the recovery timeout.
openCircuit_noTimeout(cb, circuitName, t) ==
    [cb EXCEPT !.circuits[circuitName].state = "OPEN",
               !.circuits[circuitName].nextRetryTime = t]

openCircuit(cb, circuitName, t) ==
    [cb EXCEPT !.circuits[circuitName].state = "OPEN",
               !.circuits[circuitName].nextRetryTime =
                    t + getConfig(circuitName).recoveryTimeout]

recordFailure(cb0, circuitName, failureType, t) ==
    LET cb1 == getOrCreateCircuit(cb0, circuitName)
        failure == [timestamp |-> t, failureType |-> failureType]
        cb2 == [cb1 EXCEPT !.failures =
                    [n \in (DOMAIN cb1.failures) \cup {circuitName} |->
                        IF n = circuitName
                        THEN Append(FailuresOf(cb1, circuitName), failure)
                        ELSE cb1.failures[n]]]
        cb3 == [cb2 EXCEPT !.circuits[circuitName].failureCount = @ + 1,
                           !.circuits[circuitName].totalRequests = @ + 1,
                           !.circuits[circuitName].lastFailureTime = t]
        cb4 == cleanupOldFailures(cb3, circuitName, t)
        circuit == cb4.circuits[circuitName]
        recentFailures == getRecentFailures(cb4, circuitName, t)
    IN IF circuit.state = "CLOSED"
          /\ Len(recentFailures) >= getConfig(circuitName).failureThreshold
       THEN openCircuit(cb4, circuitName, t)
       ELSE IF circuit.state = "HALF_OPEN"
            THEN openCircuit(cb4, circuitName, t)
            ELSE cb4

\* resetCircuit returns [cb, ok].
resetCircuit(cb, circuitName) ==
    IF circuitName \in DOMAIN cb.circuits
    THEN [cb |-> [circuits |-> [cb.circuits EXCEPT
                                    ![circuitName].state = "CLOSED",
                                    ![circuitName].failureCount = 0,
                                    ![circuitName].successCount = 0],
                  failures |-> [n \in (DOMAIN cb.failures) \ {circuitName} |->
                                    cb.failures[n]]],
          ok |-> TRUE]
    ELSE [cb |-> cb, ok |-> FALSE]

\* ------------------------------------------------------------------------
\* RateLimiter
\* ------------------------------------------------------------------------
MAX_SUBSCRIPTIONS_PER_CLIENT == 20

MAX_SUBSCRIPTION_ATTEMPTS_PER_MINUTE == 30

RATE_LIMIT_WINDOW_MS == 60000

\* waitTime / reason left undefined by the code
Undefined == -1

NewRateLimit(t) ==
    [subscriptionAttempts |-> <<>>, subscriptionCount |-> 0,
     lastSubscriptionTime |-> t, warningsSent |-> 0]

\* rl is the clients map of the rate limiter.
getOrCreateClient(rl, clientId, t) ==
    IF clientId \in DOMAIN rl THEN rl ELSE MapSet(rl, clientId, NewRateLimit(t))

\* now - attempt < RATE_LIMIT_WINDOW_MS
IsInWindow(attempt, t) == t - attempt < RATE_LIMIT_WINDOW_MS

\* Math.min(...attempts)
SeqMin(q) == CHOOSE m \in {q[i] : i \in 1..Len(q)} : \A j \in 1..Len(q) : m <= q[j]

\* Variant: the concurrent-subscription cap is not tested.
canSubscribe_noCapCheck(rl0, clientId, t) ==
    LET rl1 == getOrCreateClient(rl0, clientId, t)
        client == rl1[clientId]
        Keep(attempt) == IsInWindow(attempt, t)
        kept == SelectSeq(client.subscriptionAttempts, Keep)
        rl2 == [rl1 EXCEPT ![clientId].subscriptionAttempts = kept]
    IN IF Len(kept) >= MAX_SUBSCRIPTION_ATTEMPTS_PER_MINUTE
       THEN [rl |-> rl2, allowed |-> FALSE, reason |-> "rate_limit",
             waitTime |-> CeilDiv(RATE_LIMIT_WINDOW_MS - (t - SeqMin(kept)), 1000)]
       ELSE [rl |-> rl2, allowed |-> TRUE, reason |-> "", waitTime |-> Undefined]

\* Variant: the attempts of the last minute are pruned but never counted.
canSubscribe_noWindowCheck(rl0, clientId, t) ==
    LET rl1 == getOrCreateClient(rl0, clientId, t)
        client == rl1[clientId]
        Keep(attempt) == IsInWindow(attempt, t)
        kept == SelectSeq(client.subscriptionAttempts, Keep)
    IN IF client.subscriptionCount >= MAX_SUBSCRIPTIONS_PER_CLIENT
       THEN [rl |-> rl1, allowed |-> FALSE, reason |-> "max_concurrent",
             waitTime |-> Undefined]
       ELSE [rl |-> [rl1 EXCEPT ![clientId].subscriptionAttempts = kept],
             allowed |-> TRUE, reason |-> "", waitTime |-> Undefined]

\* canSubscribe returns [rl, allowed, reason, waitTime].
canSubscribe(rl0, clientId, t) ==
    LET rl1 == getOrCreateClient(rl0, clientId, t)
        client == rl1[clientId]
        Keep(attempt) == IsInWindow(attempt, t)
        kept == SelectSeq(client.subscriptionAttempts, Keep)
        rl2 == [rl1 EXCEPT ![clientId].subscriptionAttempts = kept]
    IN IF client.subscriptionCount >= MAX_SUBSCRIPTIONS_PER_CLIENT
       THEN [rl |-> rl1, allowed |-> FALSE, reason |-> "max_concurrent",
             waitTime |-> Undefined]
       ELSE IF Len(kept) >= MAX_SUBSCRIPTION_ATTEMPTS_PER_MINUTE
            THEN [rl |-> [rl2 EXCEPT ![clientId].warningsSent =
                                        IF @ < 3 THEN @ + 1 ELSE @],
                  allowed |-> FALSE, reason |-> "rate_limit",
                  waitTime |-> CeilDiv(RATE_LIMIT_WINDOW_MS - (t - SeqMin(kept)),
                                       1000)]
            ELSE [rl |-> rl2, allowed |-> TRUE, reason |-> "",
                  waitTime |-> Undefined]

\* Variant: an attempt is also counted as a subscription.
recordSubscriptionAttempt_counted(rl0, clientId, t) ==
    LET rl1 == getOrCreateClient(rl0, clientId, t)
    IN [rl1 EXCEPT ![clientId].subscriptionAttempts = Append(@, t),
                   ![clientId].lastSubscriptionTime = t,
                   ![clientId].subscriptionCount = @ + 1]

recordSubscriptionAttempt(rl0, clientId, t) ==
    LET rl1 == getOrCreateClient(rl0, clientId, t)
    IN [rl1 EXCEPT ![clientId].subscriptionAttempts = Append(@, t),
                   ![clientId].lastSubscriptionTime = t]

recordSuccessfulSubscription(rl0, clientId, t) ==
    LET rl1 == getOrCreateClient(rl0, clientId, t)
    IN [rl1 EXCEPT ![clientId].subscriptionCount = @ + 1]

recordUnsubscription(rl, clientId) ==
    IF clientId \in DOMAIN rl
    THEN [rl EXCEPT ![clientId].subscriptionCount = Max2(0, @ - 1)]
    ELSE rl

\* Variant: the idle sweep looks at the age of the record only.
cleanupOldClients_byAgeOnly(rl, t) ==
    [c \in {d \in DOMAIN rl : ~(t - rl[d].lastSubscriptionTime > 1800000)} |-> rl[c]]

\* cleanupOldClients at time t; cutoffTime = 30 * 60 * 1000
cleanupOldClients(rl, t) ==
    [c \in {d \in DOMAIN rl :
                ~(t - rl[d].lastSubscriptionTime > 1800000
                    /\ rl[d].subscriptionCount = 0)} |-> rl[c]]

rateLimiter_removeClient(rl, clientId) ==
    IF clientId \in DOMAIN rl THEN MapDelete(rl, clientId) ELSE rl

\* ------------------------------------------------------------------------
\* WebSocketManager
\* ------------------------------------------------------------------------
\* h is a record [clients, tickerSubscribers, rl, open]: the registry, the
\* reverse index, the rate limiter's map and the set of OPEN sockets.
NewClient(t) == [subscribedTickers |-> {}, lastPing |-> t]

SubscribersOf(h, ticker) ==
    IF ticker \in DOMAIN h.tickerSubscribers THEN h.tickerSubscribers[ticker] ELSE <<>>

\* tickerSubs.delete(clientId), dropping the entry when it becomes empty
DropSubscriber(ts, ticker, clientId) ==
    IF ticker \in DOMAIN ts
    THEN IF SetDelete(ts[ticker], clientId) = <<>>
         THEN MapDelete(ts, ticker)
         ELSE [ts EXCEPT ![ticker] = SetDelete(@, clientId)]
    ELSE ts

RECURSIVE DropFromAll(_, _, _)
DropFromAll(ts, tickers, clientId) ==
    IF tickers = {} THEN ts
    ELSE LET tk == CHOOSE x \in tickers : TRUE
         IN DropFromAll(DropSubscriber(ts, tk, clientId), tickers \ {tk}, clientId)

removeClient(h, clientId) ==
    IF clientId \notin DOMAIN h.clients
    THEN h
    ELSE [h EXCEPT
            !.tickerSubscribers =
                DropFromAll(@, h.clients[clientId].subscribedTickers, clientId),
            !.clients = MapDelete(@, clientId),
            !.rl = rateLimiter_removeClient(@, clientId)]

\* The frame reaches the client iff it is registered, OPEN and send succeeds.
Delivered(h, clientId, sendOk) ==
    clientId \in DOMAIN h.clients /\ clientId \in h.open /\ sendOk

\* Variant: a send that throws leaves the connection registered.
sendToClient_keepOnError(h, clientId, sendOk) == h

sendToClient(h, clientId, sendOk) ==
    IF clientId \notin DOMAIN h.clients \/ clientId \notin h.open
    THEN h
    ELSE IF sendOk THEN h ELSE removeClient(h, clientId)

\* Variant: an already subscribed pair is inserted and counted again.
subscribeClientToTicker_noDuplicateTest(h, clientId, ticker, t, sendOk) ==
    IF clientId \notin DOMAIN h.clients
    THEN [h |-> h, outcome |-> "no_client", waitTime |-> Undefined]
    ELSE
      LET normalizedTicker == Normalize(ticker)
          rateLimitCheck ==
              canSubscribe(recordSubscriptionAttempt(h.rl, clientId, t), clientId, t)
          h1 == [h EXCEPT !.rl = rateLimitCheck.rl]
          h2 == [h1 EXCEPT
                    !.clients[clientId].subscribedTickers = @ \cup {normalizedTicker},
                    !.tickerSubscribers =
                        MapSet(@, normalizedTicker,
                               SetAdd(SubscribersOf(h1, normalizedTicker), clientId)),
                    !.rl = recordSuccessfulSubscription(@, clientId, t)]
      IN IF ~rateLimitCheck.allowed
         THEN [h |-> sendToClient(h1, clientId, sendOk),
               outcome |-> "subscription_denied",
               waitTime |-> rateLimitCheck.waitTime]
         ELSE [h |-> sendToClient(h2, clientId, sendOk),
               outcome |-> IF normalizedTicker \in h1.clients[clientId].subscribedTickers
                           THEN "already_subscribed" ELSE "subscribed",
               waitTime |-> Undefined]

\* subscribeClientToTicker returns [h, outcome, waitTime].
subscribeClientToTicker(h, clientId, ticker, t, sendOk) ==
    IF clientId \notin DOMAIN h.clients
    THEN [h |-> h, outcome |-> "no_client", waitTime |-> Undefined]
    ELSE
      LET normalizedTicker == Normalize(ticker)
          rateLimitCheck ==
              canSubscribe(recordSubscriptionAttempt(h.rl, clientId, t), clientId, t)
          h1 == [h EXCEPT !.rl = rateLimitCheck.rl]
      IN IF ~rateLimitCheck.allowed
         THEN [h |-> sendToClient(h1, clientId, sendOk),
               outcome |-> "subscription_denied",
               waitTime |-> rateLimitCheck.waitTime]
         ELSE IF normalizedTicker \in h1.clients[clientId].subscribedTickers
              THEN [h |-> sendToClient(h1, clientId, sendOk),
                    outcome |-> "already_subscribed", waitTime |-> Undefined]
              ELSE
                LET h2 == [h1 EXCEPT
                            !.clients[clientId].subscribedTickers =
                                @ \cup {normalizedTicker},
                            !.tickerSubscribers =
                                MapSet(@, normalizedTicker,
                                       SetAdd(SubscribersOf(h1, normalizedTicker),
                                              clientId)),
                            !.rl = recordSuccessfulSubscription(@, clientId, t)]
                IN [h |-> sendToClient(h2, clientId, sendOk),
                    outcome |-> "subscribed", waitTime |-> Undefined]

\* Variant: the admission bookkeeping is released on every unsubscribe.
unsubscribeClientFromTicker_alwaysRelease(h, clientId, ticker, sendOk) ==
    IF clientId \notin DOMAIN h.clients
    THEN [h |-> h, outcome |-> "no_client"]
    ELSE
      LET normalizedTicker == Normalize(ticker)
          h1 == [h EXCEPT
                    !.rl = recordUnsubscription(@, clientId),
                    !.clients[clientId].subscribedTickers = @ \ {normalizedTicker},
                    !.tickerSubscribers =
                        DropSubscriber(@, normalizedTicker, clientId)]
      IN [h |-> sendToClient(h1, clientId, sendOk), outcome |-> "unsubscribed"]

\* unsubscribeClientFromTicker returns [h, outcome].
unsubscribeClientFromTicker(h, clientId, ticker, sendOk) ==
    IF clientId \notin DOMAIN h.clients
    THEN [h |-> h, outcome |-> "no_client"]
    ELSE
      LET normalizedTicker == Normalize(ticker)
          wasSubscribed == normalizedTicker \in h.clients[clientId].subscribedTickers
          h1 == [h EXCEPT
                    !.rl = IF wasSubscribed THEN recordUnsubscription(@, clientId)
                           ELSE @,
                    !.clients[clientId].subscribedTickers = @ \ {normalizedTicker},
                    !.tickerSubscribers =
                        DropSubscriber(@, normalizedTicker, clientId)]
      IN [h |-> sendToClient(h1, clientId, sendOk), outcome |-> "unsubscribed"]

\* broadcastPriceUpdate returns [h, delivered]: the hub afterwards and the
\* clients the frame was sent to.  failing = the clients whose send throws.
\* Variant: the loop ends at the first subscriber found dead.
RECURSIVE broadcastLoop_stopAtDead(_, _, _, _, _)
broadcastLoop_stopAtDead(h, ticker, todo, failing, delivered) ==
    IF todo = <<>>
    THEN [h |-> h, delivered |-> delivered]
    ELSE
      LET clientId == Head(todo)
          dead == clientId \notin DOMAIN h.clients \/ clientId \notin h.open
          hDead == [h EXCEPT
                      !.tickerSubscribers =
                          IF ticker \in DOMAIN @
                          THEN [@ EXCEPT ![ticker] = SetDelete(@, clientId)]
                          ELSE @,
                      !.clients = MapDelete(@, clientId)]
      IN IF dead
         THEN [h |-> hDead, delivered |-> delivered]
         ELSE IF clientId \in failing
              THEN broadcastLoop_stopAtDead(removeClient(h, clientId), ticker,
                                            Tail(todo), failing, delivered)
              ELSE broadcastLoop_stopAtDead(h, ticker, Tail(todo), failing,
                                            delivered \cup {clientId})

RECURSIVE broadcastLoop(_, _, _, _, _)
broadcastLoop(h, ticker, todo, failing, delivered) ==
    IF todo = <<>>
    THEN [h |-> h, delivered |-> delivered]
    ELSE
      LET clientId == Head(todo)
          dead == clientId \notin DOMAIN h.clients \/ clientId \notin h.open
          hDead == [h EXCEPT
                      !.tickerSubscribers =
                          IF ticker \in DOMAIN @
                          THEN [@ EXCEPT ![ticker] = SetDelete(@, clientId)]
                          ELSE @,
                      !.clients = MapDelete(@, clientId)]
      IN IF dead
         THEN broadcastLoop(hDead, ticker, Tail(todo), failing, delivered)
         ELSE IF clientId \in failing
              THEN broadcastLoop(removeClient(h, clientId), ticker, Tail(todo),
                                 failing, delivered)
              ELSE broadcastLoop(h, ticker, Tail(todo), failing,
                                 delivered \cup {clientId})

\* Variant: the frame goes to every registered open connection.
broadcastPriceUpdate_toAll(h, ticker, failing) ==
    IF SubscribersOf(h, ticker) = <<>>
    THEN [h |-> h, delivered |-> {}]
    ELSE [h |-> h, delivered |-> (DOMAIN h.clients \cap h.open) \ failing]

broadcastPriceUpdate(h, ticker, failing) ==
    IF SubscribersOf(h, ticker) = <<>>
    THEN [h |-> h, delivered |-> {}]
    ELSE broadcastLoop(h, ticker, SubscribersOf(h, ticker), failing, {})

\* ------------------------------------------------------------------------
\* BrowserManager
\* ------------------------------------------------------------------------
\* bm is a record [browsers, instances, pageObjs, cleanupTimeout, timers]:
\*   browsers       browserId -> BrowserInstance (by identity)
\*   instances      the BrowserInstance objects: [browserId, pages, refCount, closed]
\*   pageObjs       the Page objects of the engine: [ticker, inst, open]
\*   cleanupTimeout browserId -> timer handle
\*   timers         the pending setTimeout handles: [browserId, fireAt]
CLEANUP_DELAY_MS == 30000

\* the field maxPagesPerBrowser of BrowserManager
maxPagesPerBrowser == 5

NoInst == 0

NoPage == 0

RECURSIVE charCodeSum(_)
charCodeSum(str) == IF str = <<>> THEN 0 ELSE Head(str) + charCodeSum(Tail(str))

\* the N of `browser-N`
getBrowserIdForTicker(ticker) == charCodeSum(ticker) % 3

\* `browser-${browserId}` with browserId = `browser-N`
CircuitOf(browserId) ==
    CASE browserId = 0 -> "browser-browser-0"
      [] browserId = 1 -> "browser-browser-1"
      [] browserId = 2 -> "browser-browser-2"

cancelCleanup(bm, browserId) ==
    IF browserId \in DOMAIN bm.cleanupTimeout
    THEN [bm EXCEPT !.timers = MapDelete(@, bm.cleanupTimeout[browserId]),
                    !.cleanupTimeout = MapDelete(@, browserId)]
    ELSE bm

\* tid is the handle setTimeout returns.
scheduleCleanup(bm, browserId, tid, t) ==
    LET cleared == IF browserId \in DOMAIN bm.cleanupTimeout
                   THEN MapDelete(bm.timers, bm.cleanupTimeout[browserId])
                   ELSE bm.timers
    IN [bm EXCEPT !.timers = MapSet(cleared, tid,
                                    [browserId |-> browserId,
                                     fireAt |-> t + CLEANUP_DELAY_MS]),
                  !.cleanupTimeout = MapSet(@, browserId, tid)]

PageIsOpen(bm, page) == page \in DOMAIN bm.pageObjs /\ bm.pageObjs[page].open

\* page.close() resolved
closePage(bm, page) ==
    IF page \in DOMAIN bm.pageObjs
    THEN [bm EXCEPT !.pageObjs[page].open = FALSE]
    ELSE bm

\* releasePageForTicker up to its await: [found, inst, page]
releaseLookup(bm, ticker) ==
    LET browserId == getBrowserIdForTicker(ticker)
    IN IF browserId \in DOMAIN bm.browsers
          /\ ticker \in DOMAIN bm.instances[bm.browsers[browserId]].pages
       THEN [found |-> TRUE, inst |-> bm.browsers[browserId],
             page |-> bm.instances[bm.browsers[browserId]].pages[ticker]]
       ELSE [found |-> FALSE, inst |-> NoInst, page |-> NoPage]

\* releasePageForTicker after page.close() resolved
releaseComplete(bm, inst, page, ticker, tid, t) ==
    LET bm1 == closePage(bm, page)
        bm2 == [bm1 EXCEPT !.instances[inst].pages =
                                IF ticker \in DOMAIN @ THEN MapDelete(@, ticker) ELSE @,
                           !.instances[inst].refCount = @ - 1]
    IN IF DOMAIN bm2.instances[inst].pages = {}
       THEN scheduleCleanup(bm2, getBrowserIdForTicker(ticker), tid, t)
       ELSE bm2

\* createBrowserInstance resolved, then browsers.set
installBrowser(bm, browserId, inst) ==
    [bm EXCEPT !.instances = MapSet(@, inst,
                                    [browserId |-> browserId, pages |-> << >>,
                                     refCount |-> 0, closed |-> FALSE]),
               !.browsers = MapSet(@, browserId, inst)]

\* context.newPage() resolved
openPage(bm, inst, page, ticker) ==
    [bm EXCEPT !.pageObjs = MapSet(@, page,
                                   [ticker |-> ticker, inst |-> inst, open |-> TRUE])]

\* pages.set(ticker, page); refCount++
registerPage(bm, inst, page, ticker) ==
    [bm EXCEPT !.instances[inst].pages = MapSet(@, ticker, page),
               !.instances[inst].refCount = @ + 1]

\* the catch of the liveness probe: pages.delete(ticker); refCount = max(0, refCount - 1)
forgetPage(bm, inst, ticker) ==
    [bm EXCEPT !.instances[inst].pages =
                    IF ticker \in DOMAIN @ THEN MapDelete(@, ticker) ELSE @,
               !.instances[inst].refCount = Max2(0, @ - 1)]

\* context.close() and browser.close() resolved, then browsers.delete and,
\* back in the timer callback, cleanupTimeout.delete
closeBrowserDone(bm, browserId, inst) ==
    [bm EXCEPT !.instances[inst].closed = TRUE,
               !.pageObjs = [p \in DOMAIN @ |->
                                IF @[p].inst = inst THEN [@[p] EXCEPT !.open = FALSE]
                                ELSE @[p]],
               !.browsers = IF browserId \in DOMAIN @ THEN MapDelete(@, browserId) ELSE @,
               !.cleanupTimeout =
                    IF browserId \in DOMAIN @ THEN MapDelete(@, browserId) ELSE @]

\* ------------------------------------------------------------------------
\* PriceScraper
\* ------------------------------------------------------------------------
\* isMonitoring, hasCallback (currentCallback # null) and observing (the
\* MutationObserver is installed) are the extractor's state.  The other fields
\* are observations: detected counts the changes the observer reported,
\* handlers holds the detections whose extractPrice is in flight, received
\* lists the detections whose frame reached a subscriber, stops counts the
\* stopMonitoring calls that returned, late tells that the callback was
\* invoked after one of them.
\* A price is kept exactly, as units / scale (scale a power of ten).
NoPrice == [found |-> FALSE, units |-> 0, scale |-> 1]

\* initial observes the initial extraction of startMonitoring: the text read
\* from the page, what extractPrice made of it and whether the callback was
\* invoked with it.
NoExtraction == [extracted |-> FALSE, priceText |-> <<>>, price |-> NoPrice,
                 called |-> FALSE]

NewScraper(page, ticker) ==
    [ticker |-> ticker, page |-> page, isMonitoring |-> FALSE,
     hasCallback |-> FALSE, observing |-> FALSE,
     detected |-> 0, handlers |-> {}, received |-> <<>>, stops |-> 0,
     late |-> FALSE, initial |-> NoExtraction]

IsDigit(ch) == ch >= 48 /\ ch <= 57

\* priceText.replace(/[$\s,]/g, '')
cleanPriceText(priceText) ==
    LET Keep(ch) == ~(ch = 36 \/ ch = 44 \/ IsSpace(ch))
    IN SelectSeq(priceText, Keep)

\* the length of the run of digits of str that starts at position i
RECURSIVE DigitRun(_, _)
DigitRun(str, i) ==
    IF i > Len(str) \/ ~IsDigit(str[i]) THEN 0 ELSE 1 + DigitRun(str, i + 1)

\* the value of a sequence of digits
RECURSIVE DigitsValue(_)
DigitsValue(ds) ==
    IF ds = <<>> THEN 0
    ELSE DigitsValue(SubSeq(ds, 1, Len(ds) - 1)) * 10 + (ds[Len(ds)] - 48)

RECURSIVE Pow10(_)
Pow10(n) == IF n = 0 THEN 1 ELSE 10 * Pow10(n - 1)

\* cleanText.match(/\d+\.?\d*/) and parseFloat of the match: the leftmost
\* run of digits, then, if a '.' follows it, the digits after the '.'
matchPrice(cleanText) ==
    LET starts == {i \in 1..Len(cleanText) : IsDigit(cleanText[i])}
    IN IF starts = {}
       THEN [matched |-> FALSE, units |-> 0, scale |-> 1]
       ELSE LET start == CHOOSE i \in starts : \A j \in starts : i <= j
                n == DigitRun(cleanText, start)
                dot == start + n
                f == IF dot <= Len(cleanText) /\ cleanText[dot] = 46
                     THEN DigitRun(cleanText, dot + 1) ELSE 0
                whole == DigitsValue(SubSeq(cleanText, start, dot - 1))
                frac == DigitsValue(SubSeq(cleanText, dot + 1, dot + f))
            IN [matched |-> TRUE, units |-> whole * Pow10(f) + frac,
                scale |-> Pow10(f)]

\* Variant: the upper limit is not tested.
parsePrice_noUpperLimit(priceText) ==
    LET m == matchPrice(cleanPriceText(priceText))
    IN IF ~m.matched THEN NoPrice
       ELSE IF m.units <= 0 THEN NoPrice
       ELSE [found |-> TRUE, units |-> m.units, scale |-> m.scale]

parsePrice(priceText) ==
    LET m == matchPrice(cleanPriceText(priceText))
    IN IF ~m.matched THEN NoPrice
       ELSE IF m.units <= 0 \/ m.units > 10000000 * m.scale THEN NoPrice
       ELSE [found |-> TRUE, units |-> m.units, scale |-> m.scale]

\* extractPrice once the selectors and the title have been tried: priceText is
\* the text they gave, empty if none
extractPrice(priceText) ==
    IF priceText = <<>> THEN NoPrice ELSE parsePrice(priceText)

stopMonitoring(scraper) ==
    IF ~scraper.isMonitoring
    THEN [scraper EXCEPT !.stops = @ + 1]
    ELSE [scraper EXCEPT !.isMonitoring = FALSE, !.hasCallback = FALSE,
                         !.stops = @ + 1]

\* the catch of startMonitoring
startMonitoringFailed(scraper) ==
    [scraper EXCEPT !.isMonitoring = FALSE, !.hasCallback = FALSE]

\* ------------------------------------------------------------------------
\* crypto-stream-service
\* ------------------------------------------------------------------------
IsAlnumUpper(ch) == (ch >= 65 /\ ch <= 90) \/ (ch >= 48 /\ ch <= 57)

\* Variant: the test of the maximal length is missing.
validateTicker_noMax(ticker) ==
    LET cleanTicker == trim(toUpperCase(ticker))
    IN /\ ticker # <<>>
       /\ Len(cleanTicker) >= 2
       /\ \A i \in 1..Len(cleanTicker) : IsAlnumUpper(cleanTicker[i])

\* validateTicker(ticker).isValid
validateTicker(ticker) ==
    LET cleanTicker == trim(toUpperCase(ticker))
    IN /\ ticker # <<>>
       /\ Len(cleanTicker) >= 2
       /\ Len(cleanTicker) <= 10
       /\ \A i \in 1..Len(cleanTicker) : IsAlnumUpper(cleanTicker[i])

\* string order of Array.prototype.sort (by code unit)
RECURSIVE StrLess(_, _)
StrLess(a, b) ==
    IF a = <<>> THEN b # <<>>
    ELSE IF b = <<>> THEN FALSE
    ELSE IF Head(a) # Head(b) THEN Head(a) < Head(b)
    ELSE StrLess(Tail(a), Tail(b))

\* Variant: the list comes out in descending order.
RECURSIVE SortedList_descending(_)
SortedList_descending(S) ==
    IF S = {} THEN <<>>
    ELSE LET m == CHOOSE x \in S : \A y \in S \ {x} : StrLess(y, x)
         IN <<m>> \o SortedList_descending(S \ {m})

\* Array.from(activeSubscriptions).sort()
RECURSIVE SortedList(_)
SortedList(S) ==
    IF S = {} THEN <<>>
    ELSE LET m == CHOOSE x \in S : \A y \in S \ {x} : StrLess(x, y)
         IN <<m>> \o SortedList(S \ {m})

SubscriptionResponse(success, kind, active) ==
    [success |-> success, kind |-> kind, activeTickers |-> SortedList(active)]

NoResponse == [success |-> FALSE, kind |-> "none", activeTickers |-> <<>>]

\* Variant: the early return for an active ticker is missing.
AlreadySubscribed_never(active, ticker) == FALSE

\* activeSubscriptions.has(ticker) in subscribeTicker
AlreadySubscribed(active, ticker) == ticker \in active

\* Variant: unsubscribeTicker does not check the active set.
NotSubscribed_never(active, ticker) == FALSE

\* !activeSubscriptions.has(ticker) in unsubscribeTicker
NotSubscribed(active, ticker) == ticker \notin active

\* Variant: the validationFailed result is not looked at.
ValidationFailed_ignored(monitoringResult) == FALSE

\* monitoringResult && monitoringResult.validationFailed
ValidationFailed(monitoringResult) == monitoringResult = "miss"

\* ------------------------------------------------------------------------
\* Circuit-breaker operations driven directly (any caller, any order)
\* ------------------------------------------------------------------------
CB == [circuits |-> circuits, failures |-> failures]

StateOf(cs, circuitName) ==
    IF circuitName \in DOMAIN cs THEN cs[circuitName].state ELSE "CLOSED"

RequestsOf(circuitName) ==
    IF circuitName \in DOMAIN circuits THEN circuits[circuitName].totalRequests ELSE 0

CBNames == {"browser-browser-0"}

NoCall == [op |-> "none", name |-> "", allowed |-> FALSE, before |-> "CLOSED"]

NoneDone ==
    [k |-> 0,
     call |-> [op |-> "none", ticker |-> <<>>, pc |-> "done", inst |-> 0,
               page |-> 0,
               resp |-> [success |-> FALSE, kind |-> "none", activeTickers |-> <<>>]],
     obs |-> [activeAtStart |-> FALSE, touched |-> FALSE, recorded |-> 0,
              failTouched |-> FALSE, grew |-> FALSE, extraction |-> "none",
              prevKind |-> "none", cancelled |-> FALSE, refused |-> FALSE,
              refBefore |-> 0, hubTouched |-> FALSE]]

NoRequest ==
    [op |-> "none", client |-> "", outcome |-> "", waitTime |-> Undefined,
     windowCount |-> 0, countBefore |-> 0, priorAllOld |-> FALSE,
     subsBefore |-> 0, replied |-> FALSE,
     ticker |-> <<>>, subscribers |-> <<>>, registered |-> {}, wasOpen |-> {},
     failing |-> {}, delivered |-> {}, stale |-> {}]

Init ==
    /\ now = 0
    /\ circuits = << >>
    /\ failures = << >>
    /\ cbLast = NoCall
    /\ openedAt = [n \in CircuitNames |-> -1]
    /\ permits = [n \in CircuitNames |-> 0]
    /\ rlClients = << >>
    /\ clients = << >>
    /\ tickerSubscribers = << >>
    /\ wsUsedIds = {}
    /\ wsOpen = {}
    /\ hubLast = NoRequest
    /\ deniedOnce = {}
    /\ activeSubscriptions = {}
    /\ activeScrapers = << >>
    /\ scrapers = << >>
    /\ browsers = << >>
    /\ instances = << >>
    /\ pageObjs = << >>
    /\ cleanupTimeout = << >>
    /\ timers = << >>
    /\ closing = {}
    /\ calls = << >>
    /\ callObs = << >>
    /\ lastDone = NoneDone
    /\ faults = 0

CBCanExecute(n) ==
    LET r == canExecute(CB, n, now)
        before == StateOf(circuits, n)
        cap == getConfig(n).halfOpenMaxRequests + 1
    IN /\ circuits' = r.cb.circuits
       /\ failures' = r.cb.failures
       /\ cbLast' = [op |-> "canExecute", name |-> n, allowed |-> r.allowed,
                     before |-> before]
       /\ permits' = [permits EXCEPT ![n] =
                        IF r.allowed /\ before = "OPEN" THEN 1
                        ELSE IF r.allowed /\ before = "HALF_OPEN"
                             THEN Min2(@ + 1, cap)
                             ELSE @]
       /\ UNCHANGED <<now, openedAt, hubVars, poolVars, coVars>>

CBRecordSuccess(n) ==
    LET r == recordSuccess(CB, n, now)
    IN /\ RequestsOf(n) < MaxRequests
       /\ circuits' = r.circuits
       /\ failures' = r.failures
       /\ cbLast' = [op |-> "recordSuccess", name |-> n, allowed |-> FALSE,
                     before |-> StateOf(circuits, n)]
       /\ UNCHANGED <<now, openedAt, permits, hubVars, poolVars, coVars>>

CBRecordFailure(n) ==
    LET r == recordFailure(CB, n, "SYSTEM_ERROR", now)
        reached == /\ StateOf(circuits, n) = "CLOSED"
                   /\ Len(getRecentFailures(r, n, now))
                        >= getConfig(n).failureThreshold
    IN /\ RequestsOf(n) < MaxRequests
       /\ circuits' = r.circuits
       /\ failures' = r.failures
       /\ cbLast' = [op |-> "recordFailure", name |-> n, allowed |-> FALSE,
                     before |-> StateOf(circuits, n)]
       /\ openedAt' = [openedAt EXCEPT ![n] = IF reached THEN now ELSE @]
       /\ UNCHANGED <<now, permits, hubVars, poolVars, coVars>>

CBResetCircuit(n) ==
    LET r == resetCircuit(CB, n)
    IN /\ n \in DOMAIN circuits
       /\ circuits' = r.cb.circuits
       /\ failures' = r.cb.failures
       /\ cbLast' = [op |-> "resetCircuit", name |-> n, allowed |-> r.ok,
                     before |-> StateOf(circuits, n)]
       /\ openedAt' = [openedAt EXCEPT ![n] = -1]
       /\ UNCHANGED <<now, permits, hubVars, poolVars, coVars>>

Tick ==
    /\ now + TickMs <= MaxTime
    /\ now' = now + TickMs
    /\ UNCHANGED <<cbVars, cbObs, hubVars, poolVars, coVars>>

NextCB ==
    \/ \E n \in CBNames : CBCanExecute(n)
    \/ \E n \in CBNames : CBRecordSuccess(n)
    \/ \E n \in CBNames : CBRecordFailure(n)
    \/ \E n \in CBNames : CBResetCircuit(n)
    \/ Tick

SpecCB == Init /\ [][NextCB]_vars

\* ------------------------------------------------------------------------
\* Push-channel events (WebSocketManager handlers)
\* ------------------------------------------------------------------------
HUB == [clients |-> clients, tickerSubscribers |-> tickerSubscribers,
        rl |-> rlClients, open |-> wsOpen]

WsClients == {"c1"}

ETH == <<69, 84, 72>>

BTC == <<66, 84, 67>>

eth == <<101, 116, 104>>

\* ticker strings clients send
RawTickers == {ETH, BTC, eth}

AttemptsOf(clientId) ==
    IF clientId \in DOMAIN rlClients THEN rlClients[clientId].subscriptionAttempts
    ELSE <<>>

\* recorded attempts made less than one window ago
AttemptsWithin(clientId) ==
    Cardinality({i \in 1..Len(AttemptsOf(clientId)) :
                    now - AttemptsOf(clientId)[i] < 60000})

CountOf(clientId) ==
    IF clientId \in DOMAIN rlClients THEN rlClients[clientId].subscriptionCount ELSE 0

\* the size of the client's forward subscription set
SubsOf(clientId) ==
    IF clientId \in DOMAIN clients
    THEN Cardinality(clients[clientId].subscribedTickers) ELSE 0

SetHub(h) ==
    /\ clients' = h.clients
    /\ tickerSubscribers' = h.tickerSubscribers
    /\ rlClients' = h.rl

\* wss.on('connection')
WsConnect(c, sendOk) ==
    LET h1 == [HUB EXCEPT !.clients = MapSet(@, c, NewClient(now)),
                          !.open = @ \cup {c}]
    IN /\ c \notin wsUsedIds
       /\ wsUsedIds' = wsUsedIds \cup {c}
       /\ wsOpen' = wsOpen \cup {c}
       /\ SetHub(sendToClient(h1, c, sendOk))
       /\ hubLast' = [NoRequest EXCEPT !.op = "connect", !.client = c]
       /\ UNCHANGED <<now, cbVars, cbObs, deniedOnce, poolVars, coVars>>

\* the socket leaves readyState OPEN
WsSocketDown(c) ==
    /\ c \in wsOpen
    /\ wsOpen' = wsOpen \ {c}
    /\ hubLast' = [NoRequest EXCEPT !.op = "down", !.client = c]
    /\ UNCHANGED <<now, cbVars, cbObs, rlClients, clients, tickerSubscribers,
                   wsUsedIds, deniedOnce, poolVars, coVars>>

\* ws.on('close') / ws.on('error')
WsClose(c) ==
    /\ c \in DOMAIN clients
    /\ c \notin wsOpen
    /\ SetHub(removeClient(HUB, c))
    /\ hubLast' = [NoRequest EXCEPT !.op = "close", !.client = c]
    /\ UNCHANGED <<now, cbVars, cbObs, wsUsedIds, wsOpen, deniedOnce, poolVars, coVars>>

\* ws.on('message') with {type: 'subscribe'}
WsSubscribe(c, ticker, sendOk) ==
    LET r == subscribeClientToTicker(HUB, c, ticker, now, sendOk)
        windowDenied == r.outcome = "subscription_denied" /\ r.waitTime # Undefined
    IN /\ c \in wsOpen
       /\ AttemptsWithin(c) < MaxAttempts
       /\ SetHub(r.h)
       /\ hubLast' = [NoRequest EXCEPT
                        !.op = "subscribe", !.client = c, !.outcome = r.outcome,
                        !.waitTime = r.waitTime,
                        !.windowCount = AttemptsWithin(c) + 1,
                        !.countBefore = CountOf(c),
                        !.priorAllOld = AttemptsOf(c) # <<>> /\ AttemptsWithin(c) = 0,
                        !.subsBefore = SubsOf(c),
                        !.replied = sendOk]
       /\ deniedOnce' = IF windowDenied THEN deniedOnce \cup {c} ELSE deniedOnce
       /\ UNCHANGED <<now, cbVars, cbObs, wsUsedIds, wsOpen, poolVars, coVars>>

\* ws.on('message') with {type: 'unsubscribe'}
WsUnsubscribe(c, ticker, sendOk) ==
    LET r == unsubscribeClientFromTicker(HUB, c, ticker, sendOk)
    IN /\ c \in wsOpen
       /\ SetHub(r.h)
       /\ hubLast' = [NoRequest EXCEPT !.op = "unsubscribe", !.client = c,
                                       !.outcome = r.outcome]
       /\ UNCHANGED <<now, cbVars, cbObs, wsUsedIds, wsOpen, deniedOnce, poolVars, coVars>>

\* time passing between push-channel events
SlowTick ==
    /\ now + SlowTickMs <= MaxTime
    /\ now' = now + SlowTickMs
    /\ UNCHANGED <<cbVars, cbObs, hubVars, poolVars, coVars>>

NextRL ==
    \/ \E c \in WsClients, sendOk \in BOOLEAN : WsConnect(c, sendOk)
    \/ \E c \in WsClients : WsSocketDown(c)
    \/ \E c \in WsClients : WsClose(c)
    \/ \E c \in WsClients, tk \in RawTickers, sendOk \in BOOLEAN :
            WsSubscribe(c, tk, sendOk)
    \/ \E c \in WsClients, tk \in RawTickers, sendOk \in BOOLEAN :
            WsUnsubscribe(c, tk, sendOk)
    \/ SlowTick

SpecRL == Init /\ [][NextRL]_vars

\* ------------------------------------------------------------------------
\* One client filling its subscription set, one symbol after the other
\* ------------------------------------------------------------------------
\* the digit d as a character
Digit(d) == 48 + d

\* the symbols "T00", "T01", ...
Ticker(i) == <<84, Digit(i \div 10), Digit(i % 10)>>

\* The client asks for the first symbol it does not hold yet or for the one
\* it asked for last.
LadderTickers(c) ==
    {Ticker(i) : i \in {j \in {SubsOf(c) - 1, SubsOf(c)} : j >= 0 /\ j < MaxTickers}}

\* time passing while the client fills its set
CapTick ==
    /\ now + SlowTickMs <= CoMaxTime
    /\ now' = now + SlowTickMs
    /\ UNCHANGED <<cbVars, cbObs, hubVars, poolVars, coVars>>

NextCap ==
    \/ \E c \in WsClients, sendOk \in BOOLEAN : WsConnect(c, sendOk)
    \/ \E c \in WsClients, sendOk \in BOOLEAN :
          \E tk \in LadderTickers(c) : WsSubscribe(c, tk, sendOk)
    \/ \E c \in WsClients, sendOk \in BOOLEAN :
          \E tk \in LadderTickers(c) : WsUnsubscribe(c, tk, sendOk)
    \/ CapTick

SpecCap == Init /\ [][NextCap]_vars

\* ------------------------------------------------------------------------
\* The hub with several connections: broadcasts and the heartbeat sweep
\* ------------------------------------------------------------------------
HubClients == {"c1", "c2", "c3"}

HubTickers == {ETH, BTC}

\* The handlers below are those of the single-connection driver, observed
\* only through the hub's own state: hubLast records broadcasts alone.
HubConnect(c) ==
    LET h1 == [HUB EXCEPT !.clients = MapSet(@, c, NewClient(now)),
                          !.open = @ \cup {c}]
    IN /\ c \notin wsUsedIds
       /\ wsUsedIds' = wsUsedIds \cup {c}
       /\ wsOpen' = wsOpen \cup {c}
       /\ SetHub(sendToClient(h1, c, TRUE))
       /\ hubLast' = NoRequest
       /\ UNCHANGED <<now, cbVars, cbObs, deniedOnce, poolVars, coVars>>

HubSocketDown(c) ==
    /\ c \in wsOpen
    /\ wsOpen' = wsOpen \ {c}
    /\ hubLast' = NoRequest
    /\ UNCHANGED <<now, cbVars, cbObs, rlClients, clients, tickerSubscribers,
                   wsUsedIds, deniedOnce, poolVars, coVars>>

HubClose(c) ==
    /\ c \in DOMAIN clients
    /\ c \notin wsOpen
    /\ SetHub(removeClient(HUB, c))
    /\ hubLast' = NoRequest
    /\ UNCHANGED <<now, cbVars, cbObs, wsUsedIds, wsOpen, deniedOnce, poolVars, coVars>>

RECURSIVE TotalAttempts(_)
TotalAttempts(ids) ==
    IF ids = {} THEN 0
    ELSE LET c == CHOOSE x \in ids : TRUE
         IN Len(AttemptsOf(c)) + TotalAttempts(ids \ {c})

HubSubscribe(c, ticker, sendOk) ==
    LET r == subscribeClientToTicker(HUB, c, ticker, now, sendOk)
    IN /\ c \in wsOpen
       /\ TotalAttempts(DOMAIN rlClients) < MaxHubAttempts
       /\ SetHub(r.h)
       /\ hubLast' = NoRequest
       /\ UNCHANGED <<now, cbVars, cbObs, wsUsedIds, wsOpen, deniedOnce, poolVars,
                      coVars>>

HubUnsubscribe(c, ticker) ==
    LET r == unsubscribeClientFromTicker(HUB, c, ticker, TRUE)
    IN /\ c \in wsOpen
       /\ SetHub(r.h)
       /\ hubLast' = NoRequest
       /\ UNCHANGED <<now, cbVars, cbObs, wsUsedIds, wsOpen, deniedOnce, poolVars,
                      coVars>>

\* ws.on('pong')
HubPong(c) ==
    /\ c \in DOMAIN clients
    /\ c \in wsOpen
    /\ clients' = [clients EXCEPT ![c].lastPing = now]
    /\ hubLast' = NoRequest
    /\ UNCHANGED <<now, cbVars, cbObs, rlClients, tickerSubscribers, wsUsedIds,
                   wsOpen, deniedOnce, poolVars, coVars>>

\* broadcastPriceUpdate(priceData) called with a price of `ticker`;
\* failing = the connections whose ws.send throws
Broadcast(ticker, failing) ==
    LET r == broadcastPriceUpdate(HUB, ticker, failing)
    IN /\ \A c \in failing :
               c \in wsOpen /\ c \in DOMAIN clients
                 /\ SetHas(SubscribersOf(HUB, ticker), c)
       /\ SetHub(r.h)
       /\ hubLast' = [NoRequest EXCEPT
                        !.op = "broadcast", !.ticker = ticker,
                        !.subscribers = SubscribersOf(HUB, ticker),
                        !.registered = DOMAIN clients,
                        !.wasOpen = wsOpen,
                        !.failing = failing,
                        !.delivered = r.delivered]
       /\ UNCHANGED <<now, cbVars, cbObs, wsUsedIds, wsOpen, deniedOnce, poolVars,
                      coVars>>

RECURSIVE removeAll(_, _)
removeAll(h, ids) ==
    IF ids = {} THEN h
    ELSE LET c == CHOOSE x \in ids : TRUE
         IN removeAll(removeClient(h, c), ids \ {c})

\* Variant: the sweep deletes the dead connections from the registry only.
pingSweep_registryOnly(h, t, failing) ==
    LET deadClients == {c \in DOMAIN h.clients :
                           \/ c \notin h.open
                           \/ t - h.clients[c].lastPing > 60000
                           \/ c \in failing}
    IN [h EXCEPT !.clients = [c \in DOMAIN @ \ deadClients |-> @[c]]]

\* the callback of startPingInterval, at time t; failing = the connections
\* whose ws.ping throws
pingSweep(h, t, failing) ==
    LET deadClients == {c \in DOMAIN h.clients :
                           \/ c \notin h.open
                           \/ t - h.clients[c].lastPing > 60000
                           \/ c \in failing}
    IN removeAll(h, deadClients)

\* the heartbeat interval fires
PingSweep(failing) ==
    /\ failing \subseteq (wsOpen \cap DOMAIN clients)
    /\ SetHub(pingSweep(HUB, now, failing))
    /\ hubLast' = NoRequest
    /\ UNCHANGED <<now, cbVars, cbObs, wsUsedIds, wsOpen, deniedOnce, poolVars,
                   coVars>>

\* a quiet period: no message, pong or socket event for QuietMs
HubTick ==
    /\ now + QuietMs <= MaxTime
    /\ now' = now + QuietMs
    /\ hubLast' = NoRequest
    /\ UNCHANGED <<cbVars, cbObs, rlClients, clients, tickerSubscribers, wsUsedIds,
                   wsOpen, deniedOnce, poolVars, coVars>>

\* the sets of connections whose send or ping throws in one call
FailingSets == {f \in SUBSET HubClients : Cardinality(f) <= MaxFailing}

NextHub ==
    \/ \E c \in HubClients : HubConnect(c)
    \/ \E c \in HubClients : HubSocketDown(c)
    \/ \E c \in HubClients : HubClose(c)
    \/ \E c \in HubClients, tk \in HubTickers, sendOk \in BOOLEAN :
            HubSubscribe(c, tk, sendOk)
    \/ \E c \in HubClients, tk \in HubTickers : HubUnsubscribe(c, tk)
    \/ \E c \in HubClients : HubPong(c)
    \/ \E tk \in HubTickers, failing \in FailingSets : Broadcast(tk, failing)
    \/ \E failing \in FailingSets : PingSweep(failing)
    \/ HubTick

SpecHub == Init /\ [][NextHub]_vars

\* ------------------------------------------------------------------------
\* Properties of broadcasts and of connection removal (checked under SpecHub)
\* ------------------------------------------------------------------------
\* the subscribers of the broadcast symbol when broadcast was called
SubscribersBefore == {hubLast.subscribers[i] : i \in 1..Len(hubLast.subscribers)}

\* those of them that were registered and OPEN when broadcast was called
OpenSubscribersBefore == SubscribersBefore \cap hubLast.registered \cap hubLast.wasOpen

SubscribersNow(ticker) ==
    IF ticker \in DOMAIN tickerSubscribers
    THEN {tickerSubscribers[ticker][i] : i \in 1..Len(tickerSubscribers[ticker])}
    ELSE {}

\* C13: broadcast(S) sends a price_update frame to every connection that is
\* subscribed to S and open when it is called (the frame arrives unless the
\* send itself throws), and to no connection that is not subscribed to S.
C13_BroadcastReachesSubscribers ==
    hubLast.op = "broadcast"
    => /\ hubLast.delivered = OpenSubscribersBefore \ hubLast.failing
       /\ hubLast.delivered \subseteq SubscribersBefore

\* C13 witness: a broadcast reached two subscribers while another open
\* connection, not subscribed to the symbol, got nothing.
C13_Witness ==
    /\ hubLast.op = "broadcast"
    /\ Cardinality(hubLast.delivered) >= 2
    /\ (hubLast.registered \cap hubLast.wasOpen) \ SubscribersBefore # {}
    /\ hubLast.delivered = OpenSubscribersBefore

\* C14: in a broadcast of S a subscriber that is missing from the registry,
\* not open, or whose send throws is removed from S's subscriber set, and
\* every other open subscriber still receives the frame, wherever the dead
\* one stands in the iteration.
C14_DeadSubscriberSkipped ==
    hubLast.op = "broadcast"
    => /\ \A c \in SubscribersBefore :
             IF c \in OpenSubscribersBefore \ hubLast.failing
             THEN c \in hubLast.delivered /\ c \in SubscribersNow(hubLast.ticker)
             ELSE c \notin hubLast.delivered /\ c \notin SubscribersNow(hubLast.ticker)

\* C14 witness: the iteration met a dead subscriber and one whose send threw
\* before a live subscriber, which received the frame.
C14_Witness ==
    /\ hubLast.op = "broadcast"
    /\ Len(hubLast.subscribers) = 3
    /\ hubLast.subscribers[1] \notin hubLast.wasOpen
    /\ hubLast.subscribers[2] \in hubLast.failing
    /\ hubLast.subscribers[3] \in hubLast.delivered
    /\ SubscribersNow(hubLast.ticker) = {hubLast.subscribers[3]}

\* C15 (as claimed): every id in any subscriber set of the reverse index is
\* a registered connection.
C15_SubscribersRegistered ==
    \A tk \in DOMAIN tickerSubscribers : SubscribersNow(tk) \subseteq DOMAIN clients

\* C16 (as claimed): the rate limiter holds a non-zero concurrent-subscription
\* counter only for registered connections.
C16_CountersOnlyForRegistered ==
    \A c \in DOMAIN rlClients :
        rlClients[c].subscriptionCount > 0 => c \in DOMAIN clients

\* ------------------------------------------------------------------------
\* Properties of the subscription cap and of denials (checked under SpecCap)
\* ------------------------------------------------------------------------
\* C11: every client's concurrent-subscription counter and the size of its
\* hub subscription set are at most 20, and a subscribe request of a client
\* whose counter is 20 is denied and adds no subscription.
C11_AtMostTwentySubscriptions ==
    /\ \A c \in DOMAIN rlClients :
            rlClients[c].subscriptionCount <= MAX_SUBSCRIPTIONS_PER_CLIENT
    /\ \A c \in DOMAIN clients : SubsOf(c) <= MAX_SUBSCRIPTIONS_PER_CLIENT
    /\ ( /\ hubLast.op = "subscribe"
         /\ hubLast.outcome # "no_client"
         /\ hubLast.countBefore = MAX_SUBSCRIPTIONS_PER_CLIENT )
       => /\ hubLast.outcome = "subscription_denied"
          /\ SubsOf(hubLast.client) <= hubLast.subsBefore
          /\ CountOf(hubLast.client) <= hubLast.countBefore

\* C11 witness: a client holding 20 subscriptions asked for one more, was
\* denied, and still holds its 20.
C11_Witness ==
    /\ hubLast.op = "subscribe"
    /\ hubLast.countBefore = MAX_SUBSCRIPTIONS_PER_CLIENT
    /\ hubLast.outcome = "subscription_denied"
    /\ hubLast.replied
    /\ SubsOf(hubLast.client) = MAX_SUBSCRIPTIONS_PER_CLIENT
    /\ CountOf(hubLast.client) = MAX_SUBSCRIPTIONS_PER_CLIENT

\* the step is a subscribe request that the admission controller denied
DeniedStep == hubLast'.op = "subscribe" /\ hubLast'.outcome = "subscription_denied"

\* forward sets, reverse index, counter, active set and pool are as before
FrameKept ==
    /\ clients' = clients
    /\ tickerSubscribers' = tickerSubscribers
    /\ hubLast'.client \in DOMAIN rlClients'
    /\ rlClients'[hubLast'.client].subscriptionCount = CountOf(hubLast'.client)
    /\ activeSubscriptions' = activeSubscriptions
    /\ activeScrapers' = activeScrapers
    /\ poolVars' = poolVars

\* the connection is gone from the registry, the reverse index and the
\* admission controller; active set and pool are as before
ClientDropped ==
    /\ hubLast'.client \notin DOMAIN clients'
    /\ hubLast'.client \notin DOMAIN rlClients'
    /\ \A tk \in DOMAIN tickerSubscribers' :
            ~SetHas(tickerSubscribers'[tk], hubLast'.client)
    /\ activeSubscriptions' = activeSubscriptions
    /\ activeScrapers' = activeScrapers
    /\ poolVars' = poolVars

\* C12 (as claimed): a denied subscribe request changes neither the client's
\* forward set, nor the reverse index, nor its concurrent-subscription
\* counter, nor the coordinator's active set, nor the pool.
C12_DenialChangesNothing ==
    [][DeniedStep => FrameKept]_vars

\* C12 (amended): a denied subscribe request whose subscription_denied reply
\* is sent changes none of these; when sending the reply throws, the
\* connection is removed like on any failed send, and active set and pool
\* are still unchanged.
C12_DenialChangesNothingIfReplied ==
    [][DeniedStep => IF hubLast'.replied THEN FrameKept ELSE ClientDropped]_vars

\* C12 witness: a client holding subscriptions was denied by the attempt
\* window, got the reply, and holds the same subscriptions.
C12_Witness ==
    /\ hubLast.op = "subscribe"
    /\ hubLast.outcome = "subscription_denied"
    /\ hubLast.waitTime # Undefined
    /\ hubLast.replied
    /\ hubLast.subsBefore > 0
    /\ SubsOf(hubLast.client) = hubLast.subsBefore
    /\ CountOf(hubLast.client) = hubLast.countBefore

\* ------------------------------------------------------------------------
\* Properties of the admission controller (checked under SpecRL)
\* ------------------------------------------------------------------------

\* C9: for a client below the concurrent cap, a subscribe attempt that is
\* the 31st (or later) recorded within the last 60 s is denied with a
\* wait-time > 0; and an attempt made when every recorded attempt is at
\* least 60 s old is admitted.
C9_DeniedThenRollsOver ==
    ( /\ hubLast.op = "subscribe"
      /\ hubLast.outcome # "no_client"
      /\ hubLast.countBefore < 20 )
    => /\ hubLast.windowCount >= 31
            => hubLast.outcome = "subscription_denied" /\ hubLast.waitTime > 0
       /\ hubLast.priorAllOld
            => hubLast.outcome \in {"subscribed", "already_subscribed"}

\* C9 witness: a client that the window check denied is admitted again once
\* all its recorded attempts have left the window.
C9_Witness ==
    /\ hubLast.op = "subscribe"
    /\ hubLast.client \in deniedOnce
    /\ hubLast.priorAllOld
    /\ hubLast.countBefore < 20
    /\ hubLast.outcome \in {"subscribed", "already_subscribed"}

\* C10 (as claimed): with the attempt recorded before the check, each of a
\* client's first 30 attempts inside one window passes the window check.
C10_First30Admitted ==
    ( /\ hubLast.op = "subscribe"
      /\ hubLast.outcome # "no_client"
      /\ hubLast.countBefore < 20
      /\ hubLast.windowCount <= 30 )
    => hubLast.outcome # "subscription_denied"

\* ------------------------------------------------------------------------
\* Properties of the circuit breaker (checked under SpecCB)
\* ------------------------------------------------------------------------

\* C5: once a recordFailure made while the circuit is CLOSED brings the
\* number of failures in the rolling window to the failure threshold, every
\* canExecute made before now reaches (time of opening) + recoveryTimeout
\* returns false, whatever recordFailure / recordSuccess calls came between.
C5_OpenBlocksUntilRetry ==
    \A n \in CircuitNames :
        ( /\ cbLast.op = "canExecute"
          /\ cbLast.name = n
          /\ openedAt[n] >= 0
          /\ now < openedAt[n] + getConfig(n).recoveryTimeout )
        => ~cbLast.allowed

\* C5 witness: a canExecute refused strictly between the opening and the
\* retry time, after a further failure and a success were recorded on the
\* open circuit.
C5_Witness ==
    \E n \in DOMAIN circuits :
        /\ cbLast.op = "canExecute" /\ cbLast.name = n /\ ~cbLast.allowed
        /\ openedAt[n] >= 0
        /\ now > openedAt[n]
        /\ now < openedAt[n] + getConfig(n).recoveryTimeout
        /\ circuits[n].failureCount > getConfig(n).failureThreshold
        /\ circuits[n].successCount > 0

\* C6 (as claimed): within one half-open episode canExecute returns true at
\* most halfOpenMaxRequests times, in every ordering of the canExecute calls
\* relative to the calls that report their outcomes.
C6_AtMostCapPermits ==
    \A n \in DOMAIN circuits :
        circuits[n].state = "HALF_OPEN"
            => permits[n] <= getConfig(n).halfOpenMaxRequests

CircuitEdges ==
    {<<"CLOSED", "OPEN">>, <<"OPEN", "HALF_OPEN">>,
     <<"HALF_OPEN", "CLOSED">>, <<"HALF_OPEN", "OPEN">>}

AlongEdge(n) ==
    \/ StateOf(circuits, n)' = StateOf(circuits, n)
    \/ <<StateOf(circuits, n), StateOf(circuits, n)'>> \in CircuitEdges

\* C7 (as claimed): every operation, resetCircuit included, moves a circuit
\* only along CLOSED->OPEN, OPEN->HALF_OPEN, HALF_OPEN->CLOSED, HALF_OPEN->OPEN.
C7_OnlyEdges ==
    [][\A n \in CircuitNames : AlongEdge(n)]_vars

\* C7 (amended): canExecute, recordSuccess and recordFailure move a circuit
\* only along the four edges; resetCircuit instead takes the circuit from
\* whatever state it is in to CLOSED.
C7_OnlyEdgesExceptReset ==
    [][\A n \in CircuitNames :
          IF cbLast'.op = "resetCircuit" /\ cbLast'.name = n
          THEN StateOf(circuits, n)' = "CLOSED"
          ELSE AlongEdge(n)]_vars

\* C7 witness: a recordSuccess has just closed a half-open circuit, so the
\* circuit went CLOSED -> OPEN -> HALF_OPEN -> CLOSED.
C7_Witness ==
    \E n \in DOMAIN circuits :
        /\ cbLast.op = "recordSuccess" /\ cbLast.name = n
        /\ cbLast.before = "HALF_OPEN"
        /\ circuits[n].state = "CLOSED"

\* C8 (as claimed): when recordSuccess closes a half-open circuit, the
\* rolling failure window is empty afterwards.
C8_WindowEmptyAfterClose ==
    \A n \in DOMAIN circuits :
        ( /\ cbLast.op = "recordSuccess" /\ cbLast.name = n
          /\ cbLast.before = "HALF_OPEN"
          /\ circuits[n].state = "CLOSED" )
        => FailuresOf(CB, n) = <<>>

\* ------------------------------------------------------------------------
\* subscribeTicker / unsubscribeTicker, step by step
\* ------------------------------------------------------------------------
\* w is the record of everything a call can touch.
BM == [browsers |-> browsers, instances |-> instances, pageObjs |-> pageObjs,
       cleanupTimeout |-> cleanupTimeout, timers |-> timers]

World == [bm |-> BM, cb |-> CB, active |-> activeSubscriptions,
          activeScrapers |-> activeScrapers, scrapers |-> scrapers, hub |-> HUB]

NewCall(op, ticker) ==
    [op |-> op, ticker |-> ticker, pc |-> "start", inst |-> NoInst,
     page |-> NoPage, resp |-> NoResponse]

\* the result of one step: the world, the call, the number of recordFailure
\* calls made and the outcome of the initial extraction (if the step had one)
Res(w, call, recorded, extraction) ==
    [w |-> w, call |-> call, recorded |-> recorded, extraction |-> extraction]

Return(w, call, success, kind, recorded, extraction) ==
    Res(w, [call EXCEPT !.pc = "done",
                        !.resp = SubscriptionResponse(success, kind, w.active)],
        recorded, extraction)

\* the outer catch of subscribeTicker: releasePageForTicker up to its await
subscribe_catch(w, call, recorded) ==
    LET l == releaseLookup(w.bm, call.ticker)
    IN IF l.found
       THEN Res(w, [call EXCEPT !.pc = "rel_close", !.inst = l.inst, !.page = l.page],
                recorded, "none")
       ELSE Return(w, call, FALSE, "resource_error", recorded, "none")

\* new PriceScraper(page, ticker); startMonitoring up to its first await
subscribe_monitor(w, call, k, page) ==
    Res([w EXCEPT !.scrapers =
            MapSet(@, k, [NewScraper(page, call.ticker) EXCEPT !.hasCallback = TRUE])],
        [call EXCEPT !.pc = "mon_init", !.page = page], 0, "none")

\* activeScrapers.set; activeSubscriptions.add; return success
subscribe_activate(w, call, k, extraction) ==
    Return([w EXCEPT !.activeScrapers = MapSet(@, call.ticker, k),
                     !.active = @ \cup {call.ticker}],
           call, TRUE, "subscribed", 0, extraction)

\* getPageForTicker from the pages.has(ticker) test on
getPage_pages(w, call, inst) ==
    IF call.ticker \in DOMAIN w.bm.instances[inst].pages
    THEN Res(w, [call EXCEPT !.pc = "probe", !.inst = inst,
                             !.page = w.bm.instances[inst].pages[call.ticker]],
             0, "none")
    ELSE Res(w, [call EXCEPT !.pc = "newpage", !.inst = inst], 0, "none")

\* Variant: the shard circuit is not consulted.
getPage_begin_ungated(w, call, t) ==
    LET browserId == getBrowserIdForTicker(call.ticker)
    IN IF browserId \notin DOMAIN w.bm.browsers
       THEN Res(w, [call EXCEPT !.pc = "launch"], 0, "none")
       ELSE getPage_pages([w EXCEPT !.bm = cancelCleanup(@, browserId)],
                          call, w.bm.browsers[browserId])

\* getPageForTicker up to its first await
getPage_begin(w, call, t) ==
    LET browserId == getBrowserIdForTicker(call.ticker)
        ce == canExecute(w.cb, CircuitOf(browserId), t)
        w1 == [w EXCEPT !.cb = ce.cb]
    IN IF ~ce.allowed
       THEN subscribe_catch(w1, call, 0)
       ELSE IF browserId \notin DOMAIN w1.bm.browsers
            THEN Res(w1, [call EXCEPT !.pc = "launch"], 0, "none")
            ELSE getPage_pages([w1 EXCEPT !.bm = cancelCleanup(@, browserId)],
                               call, w1.bm.browsers[browserId])

subscribe_start(w, k, raw, t) ==
    LET call == NewCall("subscribe", Normalize(raw))
    IN IF ~validateTicker(raw)
       THEN Return(w, call, FALSE, "invalid", 0, "none")
       ELSE IF AlreadySubscribed(w.active, call.ticker)
            THEN Return(w, call, TRUE, "already", 0, "none")
            ELSE getPage_begin(w, call, t)

\* createBrowserInstance settled
subscribe_launch(w, call, k, ok, t) ==
    LET browserId == getBrowserIdForTicker(call.ticker)
    IN IF ok
       THEN getPage_pages([w EXCEPT !.bm = installBrowser(@, browserId, k)], call, k)
       ELSE subscribe_catch(
                [w EXCEPT !.cb = recordFailure(@, CircuitOf(browserId),
                                               "BROWSER_CRASH", t)],
                call, 1)

\* existingPage.evaluate settled
subscribe_probe(w, call, k, ok) ==
    IF ok
    THEN subscribe_monitor(w, call, k, call.page)
    ELSE Res([w EXCEPT !.bm = forgetPage(@, call.inst, call.ticker)],
             [call EXCEPT !.pc = "newpage", !.page = NoPage], 0, "none")

\* createPageForTicker settled; outcome is one of
\*   ok, newPageThrows, gotoTimeout (Timeout / net:: / ERR_), gotoError
subscribe_newpage(w, call, k, outcome, t) ==
    LET name == CircuitOf(getBrowserIdForTicker(call.ticker))
        opened == [w EXCEPT !.bm = openPage(@, call.inst, k, call.ticker)]
    IN CASE outcome = "ok" ->
              subscribe_monitor(
                [opened EXCEPT !.bm = registerPage(@, call.inst, k, call.ticker),
                               !.cb = recordSuccess(@, name, t)],
                call, k, k)
         [] outcome = "newPageThrows" ->
              subscribe_catch(
                [w EXCEPT !.cb = recordFailure(@, name, "PAGE_LOAD_FAILURE", t)],
                call, 1)
         [] outcome = "gotoTimeout" ->
              subscribe_catch(
                [opened EXCEPT !.cb =
                    recordFailure(recordFailure(@, name, "NETWORK_TIMEOUT", t),
                                  name, "PAGE_LOAD_FAILURE", t)],
                call, 2)
         [] outcome = "gotoError" ->
              subscribe_catch(
                [opened EXCEPT !.cb = recordFailure(@, name, "PAGE_LOAD_FAILURE", t)],
                call, 1)

\* waitForLoadState and the initial extractPrice settled; outcome is one of
\*   throw, miss, hit.  failing = the clients whose send throws.
subscribe_monInit(w, call, k, outcome, failing) ==
    IF outcome = "throw"
    THEN subscribe_activate(
            [w EXCEPT !.scrapers[k] = startMonitoringFailed(@)], call, k, "throw")
    ELSE IF ValidationFailed(outcome)
    THEN LET w1 == [w EXCEPT !.scrapers[k] = stopMonitoring(@)]
             l == releaseLookup(w1.bm, call.ticker)
         IN IF l.found
            THEN Res(w1, [call EXCEPT !.pc = "vf_close", !.inst = l.inst,
                                      !.page = l.page], 0, outcome)
            ELSE Return(w1, call, FALSE, "not_found", 0, outcome)
    ELSE IF outcome = "hit"
    THEN Res([w EXCEPT !.hub = broadcastPriceUpdate(@, call.ticker, failing).h,
                       !.scrapers[k].isMonitoring = TRUE],
             [call EXCEPT !.pc = "mon_expose"], 0, outcome)
    ELSE \* a miss that was not treated as a validation failure
         Res([w EXCEPT !.scrapers[k].isMonitoring = TRUE],
             [call EXCEPT !.pc = "mon_expose"], 0, outcome)

\* exposeFunction and the observer set-up settled
subscribe_monExpose(w, call, k, ok) ==
    IF ok
    THEN subscribe_activate([w EXCEPT !.scrapers[k].observing = TRUE], call, k, "none")
    ELSE subscribe_activate([w EXCEPT !.scrapers[k] = startMonitoringFailed(@)],
                            call, k, "none")

\* page.close() of a release inside subscribeTicker settled
subscribe_released(w, call, k, ok, t) ==
    LET kind == IF call.pc = "vf_close" THEN "not_found" ELSE "resource_error"
    IN IF ok
       THEN Return([w EXCEPT !.bm = releaseComplete(@, call.inst, call.page,
                                                    call.ticker, k, t)],
                   call, FALSE, kind, 0, "none")
       ELSE Return(w, call, FALSE, kind, 0, "none")

unsubscribe_start(w, k, raw, t) ==
    LET call == NewCall("unsubscribe", Normalize(raw))
        ticker == call.ticker
    IN IF ~validateTicker(raw)
       THEN Return(w, call, FALSE, "invalid", 0, "none")
       ELSE IF NotSubscribed(w.active, ticker)
       THEN Return(w, call, FALSE, "not_subscribed", 0, "none")
       ELSE
         LET w1 == IF ticker \in DOMAIN w.activeScrapers
                   THEN [w EXCEPT !.scrapers[w.activeScrapers[ticker]] =
                                        stopMonitoring(@),
                                  !.activeScrapers = MapDelete(@, ticker)]
                   ELSE w
             l == releaseLookup(w1.bm, ticker)
         IN IF l.found
            THEN Res(w1, [call EXCEPT !.pc = "unsub_close", !.inst = l.inst,
                                      !.page = l.page], 0, "none")
            ELSE Return([w1 EXCEPT !.active = @ \ {ticker}], call, TRUE,
                        "unsubscribed", 0, "none")

\* page.close() of the release inside unsubscribeTicker settled
unsubscribe_released(w, call, k, ok, t) ==
    IF ok
    THEN Return([w EXCEPT !.bm = releaseComplete(@, call.inst, call.page,
                                                 call.ticker, k, t),
                          !.active = @ \ {call.ticker}],
                call, TRUE, "unsubscribed", 0, "none")
    ELSE Return([w EXCEPT !.active = @ \ {call.ticker},
                          !.activeScrapers =
                              IF call.ticker \in DOMAIN @
                              THEN MapDelete(@, call.ticker) ELSE @],
                call, FALSE, "unsubscribe_error", 0, "none")

\* ------------------------------------------------------------------------
\* Control-plane calls and pool events as actions
\* ------------------------------------------------------------------------
ADA == <<65, 68, 65>>

E1 == <<69>>

\* ticker strings control-plane clients send: two symbols of shard 0, one
\* of them also in lower case, and one that is too short
RawInputs == {ETH, ADA, eth, E1}

\* the symbols the sequential client asks for
SeqInputs == {ETH, ADA}

InFlight == {k \in 1..Len(calls) : calls[k].pc # "done"}

\* the refCount of the shard's host, 0 without a host
RefCountOf(bm, browserId) ==
    IF browserId \in DOMAIN bm.browsers
    THEN bm.instances[bm.browsers[browserId]].refCount ELSE 0

\* the pool holds a session for ticker: pages.has(ticker) on the shard's host
HoldsSession(bm, ticker) ==
    /\ getBrowserIdForTicker(ticker) \in DOMAIN bm.browsers
    /\ ticker \in DOMAIN bm.instances[bm.browsers[getBrowserIdForTicker(ticker)]].pages

\* what is left of a call once it has returned
Returned == [NewCall("none", <<>>) EXCEPT !.pc = "done"]

\* prevKind: the outcome of the call that returned just before this one
\* started, if it was the same operation on the same ticker
NewObs(op, ticker) ==
    [activeAtStart |-> ticker \in activeSubscriptions, touched |-> FALSE,
     recorded |-> 0, failTouched |-> FALSE, grew |-> FALSE, extraction |-> "none",
     prevKind |-> IF lastDone.call.op = op /\ lastDone.call.ticker = ticker
                  THEN lastDone.call.resp.kind ELSE "none",
     cancelled |-> FALSE,
     refused |-> ~canExecute(CB, CircuitOf(getBrowserIdForTicker(ticker)), now).allowed,
     refBefore |-> RefCountOf(BM, getBrowserIdForTicker(ticker)),
     hubTouched |-> FALSE]

FailureCountOf(cs, n) == IF n \in DOMAIN cs THEN cs[n].failureCount ELSE 0

\* install the result r of a step of call k
Commit(k, r) ==
    LET old == IF k \in DOMAIN callObs THEN callObs[k]
               ELSE NewObs(r.call.op, r.call.ticker)
        obs == [old EXCEPT
                  !.touched = @ \/ r.w.bm # BM
                                \/ r.w.active # activeSubscriptions
                                \/ r.w.activeScrapers # activeScrapers
                                \/ r.w.scrapers # scrapers,
                  !.recorded = @ + r.recorded,
                  !.failTouched = @ \/ r.w.cb.failures # failures
                                    \/ \E n \in CircuitNames :
                                         FailureCountOf(r.w.cb.circuits, n)
                                            # FailureCountOf(circuits, n),
                  !.grew = @ \/ \E n \in CircuitNames :
                                  \/ Len(FailuresOf(r.w.cb, n)) > Len(FailuresOf(CB, n))
                                  \/ FailureCountOf(r.w.cb.circuits, n)
                                        > FailureCountOf(circuits, n),
                  !.extraction = IF r.extraction = "none" THEN @ ELSE r.extraction,
                  !.hubTouched = @ \/ r.w.hub # HUB,
                  !.cancelled = @ \/ \E b \in DOMAIN cleanupTimeout :
                                       /\ cleanupTimeout[b] \in DOMAIN timers
                                       /\ b \notin DOMAIN r.w.bm.cleanupTimeout]
    IN /\ browsers' = r.w.bm.browsers
       /\ instances' = r.w.bm.instances
       /\ pageObjs' = r.w.bm.pageObjs
       /\ cleanupTimeout' = r.w.bm.cleanupTimeout
       /\ timers' = r.w.bm.timers
       /\ circuits' = r.w.cb.circuits
       /\ failures' = r.w.cb.failures
       /\ activeSubscriptions' = r.w.active
       /\ activeScrapers' = r.w.activeScrapers
       /\ scrapers' = r.w.scrapers
       /\ SetHub(r.w.hub)
       /\ IF r.call.pc = "done"
          THEN /\ calls' = MapSet(calls, k, Returned)
               /\ callObs' = MapSet(callObs, k, NoneDone.obs)
               /\ lastDone' = [k |-> k, call |-> r.call, obs |-> obs]
          ELSE /\ calls' = MapSet(calls, k, r.call)
               /\ callObs' = MapSet(callObs, k, obs)
               /\ lastDone' = NoneDone
       /\ UNCHANGED <<now, cbObs, wsUsedIds, wsOpen, hubLast, deniedOnce, closing>>

AtPc(k, pcs) == k \in 1..Len(calls) /\ calls[k].pc \in pcs

\* an outcome the environment chose to make fail
Fault(injected) ==
    /\ injected => faults < MaxFaults
    /\ faults' = IF injected THEN faults + 1 ELSE faults

SubscribeTicker(raw) ==
    /\ Len(calls) < MaxCalls
    /\ Cardinality(InFlight) < MaxInFlight
    /\ faults' = faults
    /\ Commit(Len(calls) + 1, subscribe_start(World, Len(calls) + 1, raw, now))

UnsubscribeTicker(raw) ==
    /\ Len(calls) < MaxCalls
    /\ Cardinality(InFlight) < MaxInFlight
    /\ faults' = faults
    /\ Commit(Len(calls) + 1, unsubscribe_start(World, Len(calls) + 1, raw, now))

LaunchSettled(k, ok) ==
    /\ AtPc(k, {"launch"})
    /\ Fault(~ok)
    /\ Commit(k, subscribe_launch(World, calls[k], k, ok, now))

ProbeSettled(k, ok) ==
    /\ AtPc(k, {"probe"})
    /\ ok => PageIsOpen(BM, calls[k].page)
    /\ Fault(~ok /\ PageIsOpen(BM, calls[k].page))
    /\ Commit(k, subscribe_probe(World, calls[k], k, ok))

NewPageSettled(k, outcome) ==
    /\ AtPc(k, {"newpage"})
    /\ instances[calls[k].inst].closed => outcome = "newPageThrows"
    /\ Fault(outcome # "ok" /\ ~instances[calls[k].inst].closed)
    /\ Commit(k, subscribe_newpage(World, calls[k], k, outcome, now))

MonitorInitSettled(k, outcome, failing) ==
    /\ AtPc(k, {"mon_init"})
    /\ outcome = "hit" => PageIsOpen(BM, calls[k].page)
    /\ Fault(outcome = "throw" /\ PageIsOpen(BM, calls[k].page))
    /\ Commit(k, subscribe_monInit(World, calls[k], k, outcome, failing))

MonitorExposeSettled(k, ok) ==
    /\ AtPc(k, {"mon_expose"})
    /\ ok => PageIsOpen(BM, calls[k].page)
    /\ Fault(~ok /\ PageIsOpen(BM, calls[k].page))
    /\ Commit(k, subscribe_monExpose(World, calls[k], k, ok))

SubscribeReleaseSettled(k, ok) ==
    /\ AtPc(k, {"vf_close", "rel_close"})
    /\ Fault(~ok)
    /\ Commit(k, subscribe_released(World, calls[k], k, ok, now))

UnsubscribeReleaseSettled(k, ok) ==
    /\ AtPc(k, {"unsub_close"})
    /\ Fault(~ok)
    /\ Commit(k, unsubscribe_released(World, calls[k], k, ok, now))

SetPool(bm) ==
    /\ browsers' = bm.browsers
    /\ instances' = bm.instances
    /\ pageObjs' = bm.pageObjs
    /\ cleanupTimeout' = bm.cleanupTimeout
    /\ timers' = bm.timers

\* the setTimeout callback of scheduleCleanup, up to its await
CleanupTimerFires(tid) ==
    LET browserId == timers[tid].browserId
        bm0 == [BM EXCEPT !.timers = MapDelete(@, tid)]
        idle == /\ browserId \in DOMAIN browsers
                /\ DOMAIN instances[browsers[browserId]].pages = {}
    IN /\ tid \in DOMAIN timers
       /\ now >= timers[tid].fireAt
       /\ IF idle
          THEN /\ SetPool(cancelCleanup(bm0, browserId))
               /\ closing' = closing \cup
                    {[browserId |-> browserId, inst |-> browsers[browserId],
                      by |-> "timer"]}
          ELSE /\ SetPool([bm0 EXCEPT !.cleanupTimeout =
                             IF browserId \in DOMAIN @ THEN MapDelete(@, browserId)
                             ELSE @])
               /\ closing' = closing
       /\ lastDone' = NoneDone
       /\ UNCHANGED <<now, cbVars, cbObs, hubVars, activeSubscriptions,
                      activeScrapers, scrapers, calls, callObs, faults>>

\* closeBrowserInstance after context.close() / browser.close() settled
BrowserClosed(c) ==
    /\ c \in closing
    /\ c.by = "timer"
    /\ SetPool(closeBrowserDone(BM, c.browserId, c.inst))
    /\ closing' = closing \ {c}
    /\ lastDone' = NoneDone
    /\ UNCHANGED <<now, cbVars, cbObs, hubVars, activeSubscriptions,
                   activeScrapers, scrapers, calls, callObs, faults>>

\* page.on('crash') / page.on('pageerror') with a serious error
PageFails(p) ==
    LET name == CircuitOf(getBrowserIdForTicker(pageObjs[p].ticker))
        r == recordFailure(CB, name, "BROWSER_CRASH", now)
    IN /\ p \in DOMAIN pageObjs
       /\ pageObjs[p].open
       /\ InFlight = {}
       /\ FailureCountOf(circuits, name) < MaxPageFailures
       /\ circuits' = r.circuits
       /\ failures' = r.failures
       /\ lastDone' = NoneDone
       /\ UNCHANGED <<now, cbObs, hubVars, poolVars, activeSubscriptions,
                      activeScrapers, scrapers, calls, callObs, faults>>

\* time passing between control-plane events
CoTick ==
    /\ now + CLEANUP_DELAY_MS <= CoMaxTime
    /\ now' = now + CLEANUP_DELAY_MS
    /\ lastDone' = NoneDone
    /\ UNCHANGED <<cbVars, cbObs, hubVars, poolVars, activeSubscriptions,
                   activeScrapers, scrapers, calls, callObs, faults>>

\* the calls of the sequential client: one call at a time
SubscribeTickerSeq(raw) ==
    /\ Len(calls) < MaxSeqCalls
    /\ InFlight = {}
    /\ faults' = faults
    /\ Commit(Len(calls) + 1, subscribe_start(World, Len(calls) + 1, raw, now))

UnsubscribeTickerSeq(raw) ==
    /\ Len(calls) < MaxSeqCalls
    /\ InFlight = {}
    /\ faults' = faults
    /\ Commit(Len(calls) + 1, unsubscribe_start(World, Len(calls) + 1, raw, now))

CallSteps ==
    \/ \E k \in DOMAIN calls, ok \in BOOLEAN : LaunchSettled(k, ok)
    \/ \E k \in DOMAIN calls, ok \in BOOLEAN : ProbeSettled(k, ok)
    \/ \E k \in DOMAIN calls,
          outcome \in {"ok", "newPageThrows", "gotoTimeout", "gotoError"} :
            NewPageSettled(k, outcome)
    \/ \E k \in DOMAIN calls, outcome \in {"throw", "miss", "hit"},
          failing \in SUBSET (DOMAIN clients) :
            MonitorInitSettled(k, outcome, failing)
    \/ \E k \in DOMAIN calls, ok \in BOOLEAN : MonitorExposeSettled(k, ok)
    \/ \E k \in DOMAIN calls, ok \in BOOLEAN : SubscribeReleaseSettled(k, ok)
    \/ \E k \in DOMAIN calls, ok \in BOOLEAN : UnsubscribeReleaseSettled(k, ok)

Next ==
    \/ \E raw \in RawInputs : SubscribeTicker(raw)
    \/ \E raw \in RawInputs : UnsubscribeTicker(raw)
    \/ CallSteps
    \/ \E tid \in DOMAIN timers : CleanupTimerFires(tid)
    \/ \E c \in closing : BrowserClosed(c)
    \/ CoTick

Spec == Init /\ [][Next]_vars

NextSeq ==
    \/ \E raw \in SeqInputs : SubscribeTickerSeq(raw)
    \/ \E raw \in SeqInputs : UnsubscribeTickerSeq(raw)
    \/ CallSteps
    \/ \E tid \in DOMAIN timers : CleanupTimerFires(tid)
    \/ \E c \in closing : BrowserClosed(c)
    \/ \E p \in DOMAIN pageObjs : PageFails(p)
    \/ CoTick

SpecSeq == Init /\ [][NextSeq]_vars

\* ------------------------------------------------------------------------
\* One client subscribing to distinct symbols of one shard, one call at a time
\* ------------------------------------------------------------------------
\* the symbol of the n-th call: T00, T03, T06, ... all hash to shard 0
FillTicker(n) == Ticker(3 * (n - 1))

SubscribeFill ==
    /\ Len(calls) < MaxFillCalls
    /\ InFlight = {}
    /\ faults' = faults
    /\ Commit(Len(calls) + 1,
              subscribe_start(World, Len(calls) + 1, FillTicker(Len(calls) + 1), now))

NextFill ==
    \/ SubscribeFill
    \/ \E k \in DOMAIN calls, ok \in BOOLEAN : LaunchSettled(k, ok)
    \/ \E k \in DOMAIN calls,
          outcome \in {"ok", "newPageThrows", "gotoTimeout", "gotoError"} :
            NewPageSettled(k, outcome)
    \/ \E k \in DOMAIN calls, outcome \in {"throw", "miss", "hit"},
          failing \in SUBSET (DOMAIN clients) :
            MonitorInitSettled(k, outcome, failing)
    \/ \E k \in DOMAIN calls, ok \in BOOLEAN : MonitorExposeSettled(k, ok)
    \/ \E k \in DOMAIN calls, ok \in BOOLEAN : SubscribeReleaseSettled(k, ok)

SpecFill == Init /\ [][NextFill]_vars

\* C19 (as claimed): every host holds at most maxPagesPerBrowser sessions.
C19_AtMostFiveSessions ==
    \A i \in DOMAIN instances :
        Cardinality(DOMAIN instances[i].pages) <= maxPagesPerBrowser

\* ------------------------------------------------------------------------
\* Properties of host teardown (checked under SpecSeq)
\* ------------------------------------------------------------------------
\* the pending teardown timers of a shard
TimersOf(tm, browserId) == {tid \in DOMAIN tm : tm[tid].browserId = browserId}

\* call k completes, in this step, a release that empties its host
ReleasesLast(k) ==
    /\ AtPc(k, {"vf_close", "rel_close", "unsub_close"})
    /\ instances[calls[k].inst].pages # << >>
    /\ instances'[calls[k].inst].pages = << >>

\* call k starts, in this step, a getSession that finds a pending teardown
\* of its shard and passes the circuit gate
CancelsTeardown(k) ==
    /\ k = Len(calls) + 1
    /\ k \in DOMAIN calls'
    /\ k \in DOMAIN callObs'
    /\ IF calls'[k].pc = "done" THEN lastDone'.obs.cancelled
       ELSE callObs'[k].cancelled

\* the subscribe calls that hold a session obtained after cancelling a
\* teardown
HoldsAfterCancel(k) ==
    /\ calls[k].pc \in {"mon_init", "mon_expose"}
    /\ callObs[k].cancelled
    /\ calls[k].ticker \in DOMAIN instances[calls[k].inst].pages
    /\ instances[calls[k].inst].pages[calls[k].ticker] = calls[k].page

\* C17 (as claimed): a release of the last session of a shard leaves the
\* host open with exactly one pending teardown; a getSession for the shard
\* before the timer fires cancels it and gets its session on the same host;
\* and that host is not closed while it holds that session.
C17_TeardownCancelledByReuse ==
    /\ [][\A k \in DOMAIN calls :
            ReleasesLast(k)
            => /\ ~instances'[calls[k].inst].closed
               /\ Cardinality(TimersOf(timers', instances[calls[k].inst].browserId)) = 1]_vars
    /\ [][CancelsTeardown(Len(calls) + 1)
            => LET b == getBrowserIdForTicker(calls'[Len(calls) + 1].ticker)
               IN /\ TimersOf(timers', b) = {}
                  /\ b \in DOMAIN browsers
                  /\ calls'[Len(calls) + 1].pc # "done"
                        => calls'[Len(calls) + 1].inst = browsers[b]]_vars
    /\ [](\A k \in DOMAIN calls :
            HoldsAfterCancel(k) => ~instances[calls[k].inst].closed)

\* the call that starts in this step, and what was observed of it
StartedCall ==
    IF calls'[Len(calls) + 1].pc = "done" THEN lastDone'.call
    ELSE calls'[Len(calls) + 1]

StartedObs ==
    IF calls'[Len(calls) + 1].pc = "done" THEN lastDone'.obs
    ELSE callObs'[Len(calls) + 1]

\* a subscribe call starts in this step, reaches getSession, and canExecute
\* of its shard's circuit returns false
StartsRefused ==
    /\ Len(calls') = Len(calls) + 1
    /\ StartedCall.op = "subscribe"
    /\ StartedCall.resp.kind \notin {"invalid", "already"}
    /\ StartedObs.refused

\* C20: a getSession whose shard circuit refuses (canExecute false) fails
\* without creating a host or a session, without changing a refcount and
\* without cancelling a pending teardown; and a host or session is created
\* only by a call in which canExecute returned true.
C20_GatedByCircuit ==
    /\ [][StartsRefused
            => /\ BM' = BM
               /\ StartedCall.pc \in {"done", "rel_close"}
               /\ StartedCall.pc = "done"
                     => ~StartedCall.resp.success
                        /\ StartedCall.resp.kind = "resource_error"]_vars
    /\ [][\A k \in (DOMAIN pageObjs' \ DOMAIN pageObjs)
                     \cup (DOMAIN instances' \ DOMAIN instances) :
            /\ k \in DOMAIN callObs
            /\ calls[k].op = "subscribe"
            /\ ~callObs[k].refused]_vars

\* C20 witness: a subscribe was refused by the open circuit of its shard
\* while a teardown of that shard was pending, and the timer is still there.
C20_Witness ==
    /\ lastDone.call.op = "subscribe"
    /\ lastDone.call.resp.kind = "resource_error"
    /\ lastDone.obs.refused
    /\ ~lastDone.obs.touched
    /\ lastDone.obs.recorded = 0
    /\ StateOf(circuits, CircuitOf(getBrowserIdForTicker(lastDone.call.ticker))) = "OPEN"
    /\ TimersOf(timers, getBrowserIdForTicker(lastDone.call.ticker)) # {}
    /\ getBrowserIdForTicker(lastDone.call.ticker) \in DOMAIN cleanupTimeout

\* a getSession of the shard is in flight
GetSessionInFlight(browserId) ==
    \E k \in DOMAIN calls :
        /\ calls[k].pc \in {"launch", "probe", "newpage"}
        /\ getBrowserIdForTicker(calls[k].ticker) = browserId

\* C18 (as claimed): a host is closed only by a teardown timer that finds it
\* without sessions, and it is never closed while it holds a session or
\* while a getSession on its shard is in flight.
C18_ClosedOnlyWhenIdle ==
    [][\A i \in DOMAIN instances :
          (instances'[i].closed /\ ~instances[i].closed)
          => /\ instances[i].pages = << >>
             /\ instances[i].refCount = 0
             /\ ~GetSessionInFlight(instances[i].browserId)]_vars

\* getActiveSubscriptions().activeTickers
getActiveSubscriptions == SortedList(activeSubscriptions)

Occurrences(seq, x) == Cardinality({i \in 1..Len(seq) : seq[i] = x})

\* the extractors that are monitoring ticker on a page that is open
Sessions(ticker) ==
    {s \in DOMAIN scrapers : /\ scrapers[s].ticker = ticker
                             /\ scrapers[s].isMonitoring
                             /\ PageIsOpen(BM, scrapers[s].page)}

\* ------------------------------------------------------------------------
\* Properties of subscribeTicker / unsubscribeTicker
\* ------------------------------------------------------------------------
\* C1 (as claimed): in every interleaving of subscribe and unsubscribe calls,
\* at most one scraping session (a monitoring extractor on an open pool page)
\* exists for a symbol at any time.
C1_AtMostOneSession ==
    \A s1, s2 \in DOMAIN scrapers :
        (s1 \in Sessions(scrapers[s1].ticker) /\ s2 \in Sessions(scrapers[s1].ticker))
            => s1 = s2

\* C2: when subscribe(S) returns success for a valid S, the list of active
\* symbols contains S exactly once; and a subscribe(S) that started while S was
\* active returns success at once and changes nothing in the pool, the
\* extractor map or the active set.
C2_SubscribeIdempotent ==
    lastDone.call.op = "subscribe" =>
        /\ lastDone.call.resp.success =>
              /\ Occurrences(getActiveSubscriptions, lastDone.call.ticker) = 1
              /\ Occurrences(lastDone.call.resp.activeTickers, lastDone.call.ticker) = 1
        /\ lastDone.obs.activeAtStart =>
              /\ lastDone.call.resp.success
              /\ lastDone.call.resp.kind = "already"
              /\ ~lastDone.obs.touched

\* C2 witness: a subscribe(S) issued while S was active has just returned
\* success, with a browser, a page and a monitoring extractor in place.
C2_Witness ==
    /\ lastDone.call.op = "subscribe"
    /\ lastDone.obs.activeAtStart
    /\ lastDone.call.resp.success
    /\ lastDone.call.ticker \in DOMAIN activeScrapers
    /\ \E b \in DOMAIN browsers : instances[browsers[b]].refCount > 0

\* C3: unsubscribe(S) for an S that is not active returns success=false with
\* the reason, changes nothing in the active set, the extractor map or the
\* pool, and gives the same failure when it is repeated.
C3_UnsubscribeInactive ==
    (lastDone.call.op = "unsubscribe" /\ ~lastDone.obs.activeAtStart) =>
        /\ ~lastDone.call.resp.success
        /\ lastDone.call.resp.kind \in {"not_subscribed", "invalid"}
        /\ ~lastDone.obs.touched
        /\ lastDone.call.ticker \notin activeSubscriptions
        /\ lastDone.obs.prevKind \in {"not_subscribed", "invalid"} =>
                lastDone.call.resp.kind = lastDone.obs.prevKind

\* C3 witness: the second of two back-to-back unsubscribe(S) calls for a valid
\* S that is not active has just failed like the first, while another symbol
\* is being scraped.
C3_Witness ==
    /\ lastDone.call.op = "unsubscribe"
    /\ lastDone.call.resp.kind = "not_subscribed"
    /\ lastDone.obs.prevKind = "not_subscribed"
    /\ activeSubscriptions # {}

\* C4 (as claimed): a subscribe(S) whose initial extraction finds no price
\* returns success=false, leaves S out of the active list, and leaves every
\* circuit's failure window and failure count as they were before the call.
C4_CircuitUntouched ==
    (lastDone.call.op = "subscribe" /\ lastDone.obs.extraction = "miss") =>
        /\ ~lastDone.call.resp.success
        /\ Occurrences(getActiveSubscriptions, lastDone.call.ticker) = 0
        /\ ~lastDone.obs.failTouched

\* C4 (amended): a subscribe(S) whose initial extraction finds no price
\* returns success=false, leaves S out of the active list, and records no
\* failure: no circuit's failure window or failure count grows during the
\* call.  (The call's recordSuccess may close a half-open circuit, which
\* resets the failure count.)
C4_NoFailureRecorded ==
    (lastDone.call.op = "subscribe" /\ lastDone.obs.extraction = "miss") =>
        /\ ~lastDone.call.resp.success
        /\ lastDone.call.resp.kind = "not_found"
        /\ Occurrences(getActiveSubscriptions, lastDone.call.ticker) = 0
        /\ Occurrences(lastDone.call.resp.activeTickers, lastDone.call.ticker) = 0
        /\ ~lastDone.obs.grew
        /\ lastDone.obs.recorded = 0

\* C4 witness: a subscribe whose extraction found no price has just returned
\* not-found while the shard's circuit holds failures in its window.
C4_Witness ==
    /\ lastDone.call.op = "subscribe"
    /\ lastDone.obs.extraction = "miss"
    /\ lastDone.call.resp.kind = "not_found"
    /\ FailureCountOf(circuits, CircuitOf(getBrowserIdForTicker(lastDone.call.ticker))) > 0
    /\ FailuresOf(CB, CircuitOf(getBrowserIdForTicker(lastDone.call.ticker))) # <<>>

\* C21 (as claimed): after a subscribe(S) whose initial extraction was a miss,
\* S is in neither the active set nor the extractor map, the pool holds no
\* session for S, the shard's reference count is what it was before the call,
\* and the call's extractor is not monitoring and holds no callback.
C21_MissLeavesNothing ==
    (lastDone.call.op = "subscribe" /\ lastDone.obs.extraction = "miss") =>
        /\ lastDone.call.ticker \notin activeSubscriptions
        /\ lastDone.call.ticker \notin DOMAIN activeScrapers
        /\ ~HoldsSession(BM, lastDone.call.ticker)
        /\ RefCountOf(BM, getBrowserIdForTicker(lastDone.call.ticker))
              = lastDone.obs.refBefore
        /\ ~scrapers[lastDone.k].isMonitoring
        /\ ~scrapers[lastDone.k].hasCallback

\* the subscribe call that has just returned met a resource error: its
\* getSession threw (circuit refusal, launch or page failure) or its
\* startMonitoring threw
ResourceErrorMet ==
    /\ lastDone.call.op = "subscribe"
    /\ lastDone.call.resp.kind \notin {"invalid", "already"}
    /\ \/ lastDone.obs.refused
       \/ lastDone.obs.recorded > 0
       \/ lastDone.obs.extraction = "throw"

\* C22 (as claimed): a subscribe(S) whose session acquisition or extractor
\* start fails with a resource error returns success=false, leaves S out of
\* the active set, and has released any session it acquired.
C22_ResourceErrorCleansUp ==
    ResourceErrorMet =>
        /\ ~lastDone.call.resp.success
        /\ lastDone.call.ticker \notin activeSubscriptions
        /\ ~HoldsSession(BM, lastDone.call.ticker)

\* C23 (as claimed): unsubscribe(S) on an active S stops the extractor,
\* releases the pool session and removes S from the active set, and changes
\* nothing in the broadcast hub (forward sets, reverse index, admission
\* counters).
C23_UnsubscribeTearsDownFeedOnly ==
    (lastDone.call.op = "unsubscribe" /\ lastDone.obs.activeAtStart) =>
        /\ lastDone.call.ticker \notin activeSubscriptions
        /\ lastDone.call.ticker \notin DOMAIN activeScrapers
        /\ Sessions(lastDone.call.ticker) = {}
        /\ ~HoldsSession(BM, lastDone.call.ticker)
        /\ ~lastDone.obs.hubTouched

\* C24 (as claimed): with no subscribe or unsubscribe call in flight, a
\* symbol is in the active set if and only if the pool holds a session for it.
C24_ActiveIffSession ==
    InFlight = {} =>
        \A raw \in RawInputs :
            Normalize(raw) \in activeSubscriptions <=> HoldsSession(BM, Normalize(raw))

\* ------------------------------------------------------------------------
\* One symbol, at most one subscribe and one unsubscribe in flight at a time
\* ------------------------------------------------------------------------
OpInFlight(op) == \E k \in InFlight : calls[k].op = op

SubscribeRace ==
    /\ Len(calls) < MaxSeqCalls
    /\ ~OpInFlight("subscribe")
    /\ faults' = faults
    /\ Commit(Len(calls) + 1, subscribe_start(World, Len(calls) + 1, ETH, now))

UnsubscribeRace ==
    /\ Len(calls) < MaxSeqCalls
    /\ ~OpInFlight("unsubscribe")
    /\ faults' = faults
    /\ Commit(Len(calls) + 1, unsubscribe_start(World, Len(calls) + 1, ETH, now))

NextRace ==
    \/ SubscribeRace
    \/ UnsubscribeRace
    \/ CallSteps

SpecRace == Init /\ [][NextRace]_vars

\* no environment failure was injected and no host teardown has begun
QuietRun ==
    /\ faults = 0
    /\ closing = {}
    /\ \A i \in DOMAIN instances : ~instances[i].closed

\* C25 (as claimed): once a racing subscribe(S) and unsubscribe(S) have both
\* returned, the pool holds a session for S only if S is active; and when a
\* subscribe(S) returns success, S is active with a monitoring extractor (no
\* unsubscribe(S) can have started after it).  Stated for runs without any
\* injected failure or teardown.
C25_RaceLeaksNothing ==
    QuietRun =>
        /\ (InFlight = {} /\ HoldsSession(BM, ETH)) => ETH \in activeSubscriptions
        /\ (lastDone.call.op = "subscribe" /\ lastDone.call.resp.success)
              => /\ lastDone.call.ticker \in activeSubscriptions
                 /\ lastDone.call.ticker \in DOMAIN activeScrapers
                 /\ scrapers[activeScrapers[lastDone.call.ticker]].isMonitoring

\* ------------------------------------------------------------------------
\* The change-detection handler of an extractor and its deliveries
\* ------------------------------------------------------------------------
\* the function exposed to the page is called by the observer: the handler
\* returns at once unless the extractor is monitoring with a callback,
\* otherwise it starts extractPrice
handlerEntered(scraper) ==
    IF ~scraper.isMonitoring \/ ~scraper.hasCallback
    THEN [scraper EXCEPT !.detected = @ + 1]
    ELSE [scraper EXCEPT !.detected = @ + 1,
                         !.handlers = @ \cup {scraper.detected + 1}]

\* extractPrice of detection id settled; found = it returned a price.  The
\* callback is invoked without a new test of isMonitoring; a null callback
\* throws inside the handler's try and nothing is delivered.
handlerExtracted(w, k, id, found) ==
    LET scraper == w.scrapers[k]
        r == broadcastPriceUpdate(w.hub, scraper.ticker, {})
    IN IF found /\ scraper.hasCallback
       THEN [w |-> [w EXCEPT !.hub = r.h,
                             !.scrapers[k].handlers = @ \ {id},
                             !.scrapers[k].received =
                                 IF r.delivered # {} THEN Append(@, id) ELSE @,
                             !.scrapers[k].late = @ \/ scraper.stops > 0],
             called |-> TRUE, delivered |-> r.delivered]
       ELSE [w |-> [w EXCEPT !.scrapers[k].handlers = @ \ {id}],
             called |-> FALSE, delivered |-> {}]

ChangeDetected(k) ==
    /\ k \in DOMAIN scrapers
    /\ scrapers[k].observing
    /\ PageIsOpen(BM, scrapers[k].page)
    /\ scrapers[k].detected < MaxDetections
    /\ scrapers' = [scrapers EXCEPT ![k] = handlerEntered(@)]
    /\ lastDone' = NoneDone
    /\ hubLast' = NoRequest
    /\ UNCHANGED <<now, cbVars, cbObs, rlClients, clients, tickerSubscribers,
                   wsUsedIds, wsOpen, deniedOnce, poolVars, activeSubscriptions,
                   activeScrapers, calls, callObs, faults>>

ExtractionSettled(k, id, found) ==
    LET r == handlerExtracted(World, k, id, found)
    IN /\ k \in DOMAIN scrapers
       /\ id \in scrapers[k].handlers
       /\ found => PageIsOpen(BM, scrapers[k].page)
       /\ scrapers' = r.w.scrapers
       /\ SetHub(r.w.hub)
       /\ hubLast' = IF r.called
                     THEN [NoRequest EXCEPT
                             !.op = "broadcast", !.ticker = scrapers[k].ticker,
                             !.subscribers = SubscribersOf(HUB, scrapers[k].ticker),
                             !.registered = DOMAIN clients,
                             !.wasOpen = wsOpen,
                             !.delivered = r.delivered]
                     ELSE NoRequest
       /\ lastDone' = NoneDone
       /\ UNCHANGED <<now, cbVars, cbObs, wsUsedIds, wsOpen, deniedOnce, poolVars,
                      activeSubscriptions, activeScrapers, calls, callObs, faults>>

\* a holder of the extractor calls stopMonitoring again, after startMonitoring
\* has returned
StopMonitoring(k) ==
    /\ k \in DOMAIN scrapers
    /\ InFlight = {}
    /\ scrapers[k].stops < MaxStops
    /\ scrapers' = [scrapers EXCEPT ![k] = stopMonitoring(@)]
    /\ lastDone' = NoneDone
    /\ hubLast' = NoRequest
    /\ UNCHANGED <<now, cbVars, cbObs, rlClients, clients, tickerSubscribers,
                   wsUsedIds, wsOpen, deniedOnce, poolVars, activeSubscriptions,
                   activeScrapers, calls, callObs, faults>>

SubscribeMon ==
    /\ Len(calls) < MaxMonCalls
    /\ InFlight = {}
    /\ faults' = faults
    /\ Commit(Len(calls) + 1, subscribe_start(World, Len(calls) + 1, ETH, now))

UnsubscribeMon ==
    /\ Len(calls) < MaxMonCalls
    /\ InFlight = {}
    /\ faults' = faults
    /\ Commit(Len(calls) + 1, unsubscribe_start(World, Len(calls) + 1, ETH, now))

NextMon ==
    \/ SubscribeMon
    \/ UnsubscribeMon
    \/ \E k \in DOMAIN calls, ok \in BOOLEAN : LaunchSettled(k, ok)
    \/ \E k \in DOMAIN calls, outcome \in {"ok", "gotoError"} :
            NewPageSettled(k, outcome)
    \/ \E k \in DOMAIN calls, outcome \in {"throw", "miss", "hit"} :
            MonitorInitSettled(k, outcome, {})
    \/ \E k \in DOMAIN calls, ok \in BOOLEAN : MonitorExposeSettled(k, ok)
    \/ \E k \in DOMAIN calls, ok \in BOOLEAN : SubscribeReleaseSettled(k, ok)
    \/ \E k \in DOMAIN calls, ok \in BOOLEAN : UnsubscribeReleaseSettled(k, ok)
    \/ HubConnect("c1")
    \/ HubSubscribe("c1", ETH, TRUE)
    \/ \E k \in DOMAIN scrapers : ChangeDetected(k)
    \/ \E k \in DOMAIN scrapers, id \in 1..MaxDetections, found \in BOOLEAN :
            ExtractionSettled(k, id, found)
    \/ \E k \in DOMAIN scrapers : StopMonitoring(k)

SpecMon == Init /\ [][NextMon]_vars

\* C26 (as claimed): the frames a subscriber receives from one extractor come
\* in the order in which the changes were detected, also when the extraction
\* of an earlier change is still in flight at a later detection.
C26_DeliveredInDetectionOrder ==
    \A k \in DOMAIN scrapers :
        \A i, j \in DOMAIN scrapers[k].received :
            i < j => scrapers[k].received[i] < scrapers[k].received[j]

\* C27 (as claimed): once stopMonitoring has returned, once or several times,
\* the extractor is not monitoring, holds no callback, and its callback has
\* not been invoked since, whatever handler was in flight.
C27_StopDetaches ==
    \A k \in DOMAIN scrapers :
        scrapers[k].stops > 0 =>
            /\ ~scrapers[k].isMonitoring
            /\ ~scrapers[k].hasCallback
            /\ ~scrapers[k].late

\* ------------------------------------------------------------------------
\* The heartbeat sweep observed: two connections, two symbols
\* ------------------------------------------------------------------------
SweepClients == {"c1", "c2"}

\* the registered connections whose last pong is older than the threshold
StaleAt(h, t) == {c \in DOMAIN h.clients : t - h.clients[c].lastPing > 60000}

\* the heartbeat interval fires; hubLast keeps what the sweep found
Sweep(failing) ==
    /\ failing \subseteq (wsOpen \cap DOMAIN clients)
    /\ SetHub(pingSweep(HUB, now, failing))
    /\ hubLast' = [NoRequest EXCEPT
                     !.op = "sweep",
                     !.registered = DOMAIN clients,
                     !.wasOpen = wsOpen,
                     !.failing = failing,
                     !.stale = StaleAt(HUB, now)]
    /\ UNCHANGED <<now, cbVars, cbObs, wsUsedIds, wsOpen, deniedOnce, poolVars,
                   coVars>>

NextSweep ==
    \/ \E c \in SweepClients : HubConnect(c)
    \/ \E c \in SweepClients : HubSocketDown(c)
    \/ \E c \in SweepClients, tk \in HubTickers : HubSubscribe(c, tk, TRUE)
    \/ \E c \in SweepClients : HubPong(c)
    \/ \E tk \in HubTickers : Broadcast(tk, {})
    \/ \E failing \in FailingSets : Sweep(failing)
    \/ HubTick

SpecSweep == Init /\ [][NextSweep]_vars

\* the connection is known neither to the registry, nor to any reverse-index
\* entry, nor to the admission controller
FullyRemoved(c) ==
    /\ c \notin DOMAIN clients
    /\ c \notin DOMAIN rlClients
    /\ \A tk \in DOMAIN tickerSubscribers : ~SetHas(tickerSubscribers[tk], c)

\* the connections the sweep found registered, open and answering in time
FreshOpen == (hubLast.registered \cap hubLast.wasOpen) \ hubLast.stale

\* C28 (as claimed): after a sweep, every connection whose last heartbeat
\* response was older than 60 s is fully removed, and every connection that
\* had answered within the threshold and was open is still registered.
C28_SweepRemovesExactlyStale ==
    hubLast.op = "sweep" =>
        /\ \A c \in hubLast.stale : FullyRemoved(c)
        /\ \A c \in FreshOpen : c \in DOMAIN clients

\* C28 (amended): after a sweep, every connection whose last heartbeat
\* response was older than 60 s is fully removed, and every connection that
\* had answered within the threshold, was open and whose ping did not throw is
\* still registered; a connection whose ping threw is fully removed.
C28_SweepRemovesStaleKeepsPinged ==
    hubLast.op = "sweep" =>
        /\ \A c \in hubLast.stale : FullyRemoved(c)
        /\ \A c \in FreshOpen \ hubLast.failing : c \in DOMAIN clients
        /\ \A c \in hubLast.failing : FullyRemoved(c)

\* a sweep that removed a stale connection whose socket was open and kept a
\* fresh open one
C28_Witness ==
    /\ hubLast.op = "sweep"
    /\ \E c \in hubLast.stale \cap hubLast.wasOpen : FullyRemoved(c)
    /\ \E c \in FreshOpen \ hubLast.failing : c \in DOMAIN clients

\* ------------------------------------------------------------------------
\* Responses of the coordinator, the listing included
\* ------------------------------------------------------------------------
\* getActiveSubscriptions: no await, the response is built in one step
ListActive ==
    /\ lastDone' = [NoneDone EXCEPT
                      !.call.op = "listActive",
                      !.call.resp = [success |-> TRUE, kind |-> "list",
                                     activeTickers |-> getActiveSubscriptions]]
    /\ UNCHANGED <<now, cbVars, cbObs, hubVars, poolVars, activeSubscriptions,
                   activeScrapers, scrapers, calls, callObs, faults>>

NextResp ==
    \/ Next
    \/ ListActive

SpecResp == Init /\ [][NextResp]_vars

\* C29: the response of the call that has just returned (subscribe,
\* unsubscribe or listActive, success or failure) lists exactly the members of
\* the active set of that moment, in strictly ascending order.
C29_ResponseCarriesSortedActiveSet ==
    lastDone.call.op # "none" =>
        LET t == lastDone.call.resp.activeTickers
        IN /\ {t[i] : i \in DOMAIN t} = activeSubscriptions
           /\ \A i, j \in DOMAIN t : i < j => StrLess(t[i], t[j])

\* a response listing two active symbols, built while another call is in
\* flight
C29_Witness ==
    /\ lastDone.call.op \in {"subscribe", "unsubscribe"}
    /\ lastDone.call.resp.activeTickers = <<ADA, ETH>>
    /\ InFlight # {}

\* ------------------------------------------------------------------------
\* Validation of the raw input of the coordinator's calls
\* ------------------------------------------------------------------------
\* "ETH", " eth ", "ABCDEFGHI1" (10 characters), "ABCDEFGHIJK" (11), "E-H",
\* "E H", "", " E " and "E"
ValInputs ==
    {ETH, <<32, 101, 116, 104, 32>>, <<65, 66, 67, 68, 69, 70, 71, 72, 73, 49>>,
     <<65, 66, 67, 68, 69, 70, 71, 72, 73, 74, 75>>, <<69, 45, 72>>,
     <<69, 32, 72>>, <<>>, <<32, 69, 32>>, E1}

SubscribeVal(raw) ==
    /\ Len(calls) < MaxValCalls
    /\ InFlight = {}
    /\ faults' = faults
    /\ Commit(Len(calls) + 1, subscribe_start(World, Len(calls) + 1, raw, now))

UnsubscribeVal(raw) ==
    /\ Len(calls) < MaxValCalls
    /\ InFlight = {}
    /\ faults' = faults
    /\ Commit(Len(calls) + 1, unsubscribe_start(World, Len(calls) + 1, raw, now))

NextVal ==
    \/ \E raw \in ValInputs : SubscribeVal(raw)
    \/ \E raw \in ValInputs : UnsubscribeVal(raw)
    \/ CallSteps

SpecVal == Init /\ [][NextVal]_vars

\* a normalized symbol: 2 to 10 characters, each of A-Z or 0-9
IsNormalized(str) ==
    /\ Len(str) \in 2..10
    /\ \A i \in DOMAIN str : str[i] \in (65..90) \cup (48..57)

\* C30: a raw input is accepted exactly when its trimmed, upper-cased form is
\* a normalized symbol; the call of a rejected input returns a failure at once
\* and has changed nothing; every member of the active set is normalized.
C30_ValidatedExactlyWhenNormalized ==
    /\ \A raw \in ValInputs : validateTicker(raw) <=> IsNormalized(Normalize(raw))
    /\ lastDone.call.op \in {"subscribe", "unsubscribe"} =>
          /\ lastDone.call.resp.kind = "invalid" <=> ~IsNormalized(lastDone.call.ticker)
          /\ lastDone.call.resp.kind = "invalid" =>
                /\ ~lastDone.call.resp.success
                /\ ~lastDone.obs.touched
                /\ ~lastDone.obs.hubTouched
                /\ ~lastDone.obs.failTouched
    /\ \A k \in InFlight : IsNormalized(calls[k].ticker)
    /\ \A t \in activeSubscriptions : IsNormalized(t)

\* a symbol is active and the 11-character input has just been rejected
C30_Witness ==
    /\ activeSubscriptions # {}
    /\ lastDone.call.resp.kind = "invalid"
    /\ Len(lastDone.call.ticker) = 11

\* ------------------------------------------------------------------------
\* One frame per detected change (checked under SpecMon)
\* ------------------------------------------------------------------------
\* the handler of a detection of extractor k finishes in this step while k is
\* the extractor of an active symbol
HandlerFinishes(k) ==
    /\ scrapers'[k].handlers # scrapers[k].handlers
    /\ scrapers'[k].handlers \subseteq scrapers[k].handlers
    /\ scrapers[k].ticker \in activeSubscriptions
    /\ scrapers[k].ticker \in DOMAIN activeScrapers
    /\ activeScrapers[scrapers[k].ticker] = k

\* C31 (as claimed): when the handler of a change detected on an active
\* symbol finishes, every open connection subscribed to the symbol has
\* received the frame of that change (one frame per handler, none missing).
C31_OneFramePerChange ==
    [][\A k \in DOMAIN scrapers :
          HandlerFinishes(k) =>
              \A c \in DOMAIN clients :
                  (c \in wsOpen /\ SetHas(SubscribersOf(HUB, scrapers[k].ticker), c))
                      => /\ hubLast'.op = "broadcast"
                         /\ c \in hubLast'.delivered]_vars

\* ------------------------------------------------------------------------
\* Shutdown: process.on('SIGINT') and BrowserManager.closeAll
\* ------------------------------------------------------------------------
\* the map over activeScrapers.entries(): every registered extractor is stopped
stopAll(scrs, registered) ==
    [k \in DOMAIN scrs |->
        IF \E t \in DOMAIN registered : registered[t] = k
        THEN stopMonitoring(scrs[k]) ELSE scrs[k]]

\* closeAll up to its await: the timers of cleanupTimeout are cleared and the
\* map is emptied
closeAll_begin(bm) ==
    [bm EXCEPT !.timers = [tid \in DOMAIN @ \ {bm.cleanupTimeout[b] :
                                                 b \in DOMAIN bm.cleanupTimeout}
                              |-> @[tid]],
               !.cleanupTimeout = << >>]

\* the closeBrowserInstance calls closeAll starts, one per entry of browsers
closeAll_started(bm) ==
    {[browserId |-> b, inst |-> bm.browsers[b], by |-> "closeAll"] :
        b \in DOMAIN bm.browsers}

\* closeBrowserInstance of closeAll after its try: the error of a failed close
\* is caught, browsers.delete(browserId) runs in both cases
closeAll_closed(bm, browserId, inst, ok) ==
    LET bm1 == IF ok
               THEN [bm EXCEPT !.instances[inst].closed = TRUE,
                               !.pageObjs =
                                   [p \in DOMAIN @ |->
                                       IF @[p].inst = inst
                                       THEN [@[p] EXCEPT !.open = FALSE] ELSE @[p]]]
               ELSE bm
    IN [bm1 EXCEPT !.browsers =
                      IF browserId \in DOMAIN @ THEN MapDelete(@, browserId) ELSE @]

ShutdownCall(pc) ==
    [NewCall("shutdown", <<>>) EXCEPT !.pc = pc]

ShuttingDown == \E k \in DOMAIN calls : calls[k].op = "shutdown"

Exited == \E k \in DOMAIN calls : calls[k].op = "shutdown" /\ calls[k].pc = "exited"

\* SIGINT is received; with an empty pool process.exit follows at once
Sigint ==
    LET k == Len(calls) + 1
        started == closeAll_started(BM)
        pc == IF started = {} THEN "exited" ELSE "closeAll"
    IN /\ ~ShuttingDown
       /\ scrapers' = stopAll(scrapers, activeScrapers)
       /\ SetPool(closeAll_begin(BM))
       /\ closing' = closing \cup started
       /\ calls' = Append(calls, ShutdownCall(pc))
       /\ callObs' = MapSet(callObs, k, NoneDone.obs)
       /\ lastDone' = NoneDone
       /\ UNCHANGED <<now, cbVars, cbObs, hubVars, activeSubscriptions,
                      activeScrapers, faults>>

\* context.close() / browser.close() of a closeBrowserInstance of closeAll
\* settled; after the last of them Promise.all resolves and the process exits
ShutdownBrowserClosed(c, ok) ==
    LET k == CHOOSE i \in DOMAIN calls : calls[i].op = "shutdown"
        last == \A d \in closing \ {c} : d.by # "closeAll"
    IN /\ c \in closing
       /\ c.by = "closeAll"
       /\ Fault(~ok)
       /\ SetPool(closeAll_closed(BM, c.browserId, c.inst, ok))
       /\ closing' = closing \ {c}
       /\ calls' = IF last THEN [calls EXCEPT ![k] = ShutdownCall("exited")]
                    ELSE calls
       /\ lastDone' = NoneDone
       /\ UNCHANGED <<now, cbVars, cbObs, hubVars, activeSubscriptions,
                      activeScrapers, scrapers, callObs>>

CoordinatorCalls == {k \in InFlight : calls[k].op # "shutdown"}

SubscribeDown ==
    /\ Len(calls) < MaxDownCalls
    /\ CoordinatorCalls = {}
    /\ faults' = faults
    /\ Commit(Len(calls) + 1, subscribe_start(World, Len(calls) + 1, ETH, now))

UnsubscribeDown ==
    /\ Len(calls) < MaxDownCalls
    /\ CoordinatorCalls = {}
    /\ faults' = faults
    /\ Commit(Len(calls) + 1, unsubscribe_start(World, Len(calls) + 1, ETH, now))

\* nothing runs once process.exit was called
NextDown ==
    \/ ~Exited /\ SubscribeDown
    \/ ~Exited /\ UnsubscribeDown
    \/ ~Exited /\ \E k \in DOMAIN calls, ok \in BOOLEAN : LaunchSettled(k, ok)
    \/ ~Exited /\ \E k \in DOMAIN calls, ok \in BOOLEAN : ProbeSettled(k, ok)
    \/ ~Exited /\ \E k \in DOMAIN calls,
                     outcome \in {"ok", "newPageThrows", "gotoTimeout", "gotoError"} :
                        NewPageSettled(k, outcome)
    \/ ~Exited /\ \E k \in DOMAIN calls, outcome \in {"throw", "miss", "hit"} :
                        MonitorInitSettled(k, outcome, {})
    \/ ~Exited /\ \E k \in DOMAIN calls, ok \in BOOLEAN : MonitorExposeSettled(k, ok)
    \/ ~Exited /\ \E k \in DOMAIN calls, ok \in BOOLEAN : SubscribeReleaseSettled(k, ok)
    \/ ~Exited /\ \E k \in DOMAIN calls, ok \in BOOLEAN : UnsubscribeReleaseSettled(k, ok)
    \/ ~Exited /\ \E tid \in DOMAIN timers : CleanupTimerFires(tid)
    \/ ~Exited /\ \E c \in closing : BrowserClosed(c)
    \/ ~Exited /\ CoTick
    \/ ~Exited /\ Sigint
    \/ ~Exited /\ \E c \in closing, ok \in BOOLEAN : ShutdownBrowserClosed(c, ok)

SpecDown == Init /\ [][NextDown]_vars

\* C32 (as claimed, safety part): when exit is reached no extractor is
\* monitoring, the pool holds no shard and no teardown timer is pending.
C32_ExitLeavesNothing ==
    Exited =>
        /\ \A k \in DOMAIN scrapers : ~scrapers[k].isMonitoring
        /\ DOMAIN browsers = {}
        /\ DOMAIN timers = {}

\* ------------------------------------------------------------------------
\* Application-level ping frames of a client
\* ------------------------------------------------------------------------
\* ws.on('message') with {type: 'ping'}: sendToClient(clientId, {type: 'pong'})
HubPing(c, sendOk) ==
    /\ c \in wsOpen
    /\ SetHub(sendToClient(HUB, c, sendOk))
    /\ hubLast' = [NoRequest EXCEPT
                     !.op = "ping", !.client = c,
                     !.registered = DOMAIN clients,
                     !.wasOpen = wsOpen,
                     !.replied = Delivered(HUB, c, sendOk),
                     !.delivered = IF Delivered(HUB, c, sendOk) THEN {c} ELSE {}]
    /\ UNCHANGED <<now, cbVars, cbObs, wsUsedIds, wsOpen, deniedOnce, poolVars,
                   coVars>>

NextPing ==
    \/ \E c \in SweepClients : HubConnect(c)
    \/ \E c \in SweepClients : HubSocketDown(c)
    \/ \E c \in SweepClients, tk \in HubTickers : HubSubscribe(c, tk, TRUE)
    \/ \E c \in SweepClients : HubPong(c)
    \/ \E tk \in HubTickers : Broadcast(tk, {})
    \/ \E c \in SweepClients, sendOk \in BOOLEAN : HubPing(c, sendOk)
    \/ HubTick

SpecPing == Init /\ [][NextPing]_vars

\* a ping frame of an open, registered connection is handled in this step
PingStep ==
    /\ hubLast'.op = "ping"
    /\ hubLast'.client \in DOMAIN clients
    /\ hubLast'.client \in wsOpen

\* neither index, nor the admission controller, nor any heartbeat time changes
HubStateKept ==
    /\ clients' = clients
    /\ tickerSubscribers' = tickerSubscribers
    /\ rlClients' = rlClients

\* C33 (as claimed): a ping frame of an open, registered connection is
\* answered with one pong to that connection and changes no subscription,
\* admission or heartbeat state.
C33_PingAnsweredNothingChanged ==
    [][PingStep => /\ hubLast'.delivered = {hubLast'.client}
                   /\ HubStateKept]_vars

\* C33 (amended): the ping is answered with one pong to that connection and
\* nothing changes, unless sending the pong throws: then no pong is delivered
\* and the connection is removed from the registry, the reverse index and the
\* admission controller, the other connections being untouched.
C33_PingAnsweredOrClientDropped ==
    [][PingStep =>
          IF hubLast'.replied
          THEN /\ hubLast'.delivered = {hubLast'.client}
               /\ HubStateKept
          ELSE /\ hubLast'.delivered = {}
               /\ hubLast'.client \notin DOMAIN clients'
               /\ hubLast'.client \notin DOMAIN rlClients'
               /\ \A tk \in DOMAIN tickerSubscribers' :
                      ~SetHas(tickerSubscribers'[tk], hubLast'.client)
               /\ \A c \in DOMAIN clients \ {hubLast'.client} :
                      c \in DOMAIN clients' /\ clients'[c] = clients[c]]_vars

\* a subscribed connection has just been answered with a pong
C33_Witness ==
    /\ hubLast.op = "ping"
    /\ hubLast.delivered = {hubLast.client}
    /\ SubsOf(hubLast.client) > 0
    /\ hubLast.client \in DOMAIN rlClients

\* ------------------------------------------------------------------------
\* The two subscription indices and the admission counters: two connections,
\* requests observed, the idle sweep of the admission controller
\* ------------------------------------------------------------------------
\* ws.on('message') with {type: 'subscribe'}
IdxSubscribe(c, ticker, sendOk) ==
    LET r == subscribeClientToTicker(HUB, c, ticker, now, sendOk)
    IN /\ c \in wsOpen
       /\ TotalAttempts(DOMAIN rlClients) < MaxIdxAttempts
       /\ SetHub(r.h)
       /\ hubLast' = [NoRequest EXCEPT
                        !.op = "subscribe", !.client = c, !.outcome = r.outcome,
                        !.ticker = Normalize(ticker),
                        !.countBefore = CountOf(c),
                        !.subsBefore = SubsOf(c),
                        !.replied = Delivered(HUB, c, sendOk)]
       /\ UNCHANGED <<now, cbVars, cbObs, wsUsedIds, wsOpen, deniedOnce, poolVars,
                      coVars>>

\* ws.on('message') with {type: 'unsubscribe'}
IdxUnsubscribe(c, ticker, sendOk) ==
    LET r == unsubscribeClientFromTicker(HUB, c, ticker, sendOk)
    IN /\ c \in wsOpen
       /\ SetHub(r.h)
       /\ hubLast' = [NoRequest EXCEPT
                        !.op = "unsubscribe", !.client = c, !.outcome = r.outcome,
                        !.ticker = Normalize(ticker),
                        !.countBefore = CountOf(c),
                        !.subsBefore = SubsOf(c),
                        !.replied = Delivered(HUB, c, sendOk)]
       /\ UNCHANGED <<now, cbVars, cbObs, wsUsedIds, wsOpen, deniedOnce, poolVars,
                      coVars>>

\* the cleanup interval of the rate limiter fires
RlCleanup ==
    /\ rlClients' = cleanupOldClients(rlClients, now)
    /\ hubLast' = [NoRequest EXCEPT !.op = "cleanup"]
    /\ UNCHANGED <<now, cbVars, cbObs, clients, tickerSubscribers, wsUsedIds, wsOpen,
                   deniedOnce, poolVars, coVars>>

\* a long period without any event
IdleTick ==
    /\ now + IdleMs <= MaxIdleTime
    /\ now' = now + IdleMs
    /\ hubLast' = NoRequest
    /\ UNCHANGED <<cbVars, cbObs, rlClients, clients, tickerSubscribers, wsUsedIds,
                   wsOpen, deniedOnce, poolVars, coVars>>

NextIdx ==
    \/ \E c \in SweepClients : HubConnect(c)
    \/ \E c \in SweepClients : HubSocketDown(c)
    \/ \E c \in SweepClients, tk \in RawTickers, sendOk \in BOOLEAN :
            IdxSubscribe(c, tk, sendOk)
    \/ \E c \in SweepClients, tk \in RawTickers, sendOk \in BOOLEAN :
            IdxUnsubscribe(c, tk, sendOk)
    \/ \E tk \in HubTickers : Broadcast(tk, {})
    \/ RlCleanup
    \/ IdleTick

SpecIdx == Init /\ [][NextIdx]_vars

\* the forward and the reverse index agree on every registered connection
IndicesAgree ==
    \A c \in DOMAIN clients : \A tk \in HubTickers :
        tk \in clients[c].subscribedTickers
            <=> SetHas(SubscribersOf(HUB, tk), c)

\* an admitted subscribe request of a registered connection is handled
AdmittedSubscribe(outcome) ==
    /\ hubLast'.op = "subscribe"
    /\ hubLast'.outcome = outcome
    /\ hubLast'.client \in DOMAIN clients

\* the pair of the request is in both indices
PairInserted ==
    /\ hubLast'.client \in DOMAIN clients'
    /\ hubLast'.ticker \in clients'[hubLast'.client].subscribedTickers
    /\ hubLast'.ticker \in DOMAIN tickerSubscribers'
    /\ SetHas(tickerSubscribers'[hubLast'.ticker], hubLast'.client)
    /\ hubLast'.client \in DOMAIN rlClients'
    /\ rlClients'[hubLast'.client].subscriptionCount = hubLast'.countBefore + 1

\* neither index nor the concurrent counter of the requester changes
PairKept ==
    /\ clients' = clients
    /\ tickerSubscribers' = tickerSubscribers
    /\ hubLast'.client \in DOMAIN rlClients'
    /\ rlClients'[hubLast'.client].subscriptionCount = hubLast'.countBefore

\* C34 (as claimed): the indices always agree; an admitted subscribe for a
\* new pair inserts it into both; an admitted subscribe for a present pair is
\* acknowledged and changes neither index nor the concurrent counter.
C34_IndicesAgreeAndSubscribeInserts ==
    /\ []IndicesAgree
    /\ [][AdmittedSubscribe("subscribed") => PairInserted]_vars
    /\ [][AdmittedSubscribe("already_subscribed")
            => hubLast'.replied /\ PairKept]_vars

\* C34 (amended): the same, each effect being that of a request whose reply is
\* sent; when sending the reply throws, the connection is removed from the
\* registry, from the reverse index and from the admission controller.
C34_IndicesAgreeAndSubscribeInsertsIfReplied ==
    /\ []IndicesAgree
    /\ [][(AdmittedSubscribe("subscribed") /\ hubLast'.replied) => PairInserted]_vars
    /\ [][(AdmittedSubscribe("already_subscribed") /\ hubLast'.replied)
            => PairKept]_vars
    /\ [][((AdmittedSubscribe("subscribed") \/ AdmittedSubscribe("already_subscribed"))
             /\ ~hubLast'.replied)
            => /\ hubLast'.client \notin DOMAIN clients'
               /\ hubLast'.client \notin DOMAIN rlClients'
               /\ \A tk \in DOMAIN tickerSubscribers' :
                      ~SetHas(tickerSubscribers'[tk], hubLast'.client)]_vars

\* a second subscribe for a pair already present has just been acknowledged
\* while the other connection subscribes to the same symbol
C34_Witness ==
    /\ hubLast.op = "subscribe"
    /\ hubLast.outcome = "already_subscribed"
    /\ hubLast.replied
    /\ \E c \in DOMAIN clients \ {hubLast.client} :
            hubLast.ticker \in clients[c].subscribedTickers

\* C35: for every registered connection the concurrent-subscription counter
\* of the admission controller equals the size of its subscribed set, after
\* any sequence of subscribe, unsubscribe and denied requests.
C35_CounterEqualsSubscribedSet ==
    \A c \in DOMAIN clients : CountOf(c) = SubsOf(c)

\* a connection holding one symbol has just unsubscribed from a symbol it had
\* never subscribed to
C35_Witness ==
    /\ hubLast.op = "unsubscribe"
    /\ hubLast.outcome = "unsubscribed"
    /\ hubLast.client \in DOMAIN clients
    /\ hubLast.ticker \notin clients[hubLast.client].subscribedTickers
    /\ hubLast.subsBefore = 1
    /\ SubsOf(hubLast.client) = 1
    /\ CountOf(hubLast.client) = 1

\* the record survives the sweep unchanged
RecordKept(c) == c \in DOMAIN rlClients' /\ rlClients'[c] = rlClients[c]

\* C38: the idle sweep removes a record only if its counter is 0 and its
\* last attempt is older than 30 minutes; every other record, and so every
\* record with a counter of at least 1, is left as it was.
C38_SweepRemovesOnlyIdleEmpty ==
    [][hubLast'.op = "cleanup" =>
          \A c \in DOMAIN rlClients :
              IF rlClients[c].subscriptionCount = 0
                 /\ now - rlClients[c].lastSubscriptionTime > 1800000
              THEN c \notin DOMAIN rlClients'
              ELSE RecordKept(c)]_vars

\* the sweep has just removed an idle record and kept that of a connection
\* which holds a subscription for as long
C38_Witness ==
    /\ hubLast.op = "cleanup"
    /\ \E c \in DOMAIN clients : c \notin DOMAIN rlClients
    /\ \E c \in DOMAIN rlClients :
          /\ rlClients[c].subscriptionCount > 0
          /\ now - rlClients[c].lastSubscriptionTime > 1800000

\* the getSession of call k fails in this step: the launch of the shard host
\* or the creation of the page settles with an error
AcquisitionFails(k) ==
    /\ k \in 1..Len(calls)
    /\ calls[k].op = "subscribe"
    /\ calls[k].pc \in {"launch", "newpage"}
    /\ calls'[k].pc \in {"rel_close", "done"}

\* the entries of circuit n's rolling window at time t
WindowAt(cs, fs, n, t) ==
    Len(getRecentFailures([circuits |-> cs, failures |-> fs], n, t))

\* C36: a failed session acquisition adds exactly one entry to the rolling
\* window of the circuit of the symbol's shard, and leaves the window and
\* the failure count of every other circuit as they were.
C36_OneFailurePerFailedAcquisition ==
    [][\A k \in DOMAIN calls : AcquisitionFails(k) =>
          \A n \in CircuitNames :
              IF n = CircuitOf(getBrowserIdForTicker(calls[k].ticker))
              THEN WindowAt(circuits', failures', n, now)
                      = WindowAt(circuits, failures, n, now) + 1
              ELSE /\ WindowAt(circuits', failures', n, now)
                         = WindowAt(circuits, failures, n, now)
                   /\ FailureCountOf(circuits', n) = FailureCountOf(circuits, n)]_vars

\* ------------------------------------------------------------------------
\* The initial extraction of startMonitoring, driven by the text of the page
\* ------------------------------------------------------------------------
MaxParseCalls == 2

\* "$1,234.56", " 0.5 USD", "$10,000,000", "-5", "0", "0.00", "10,000,001",
\* "10000000.5", "N/A", ""
PriceTexts ==
    {<<36, 49, 44, 50, 51, 52, 46, 53, 54>>,
     <<32, 48, 46, 53, 32, 85, 83, 68>>,
     <<36, 49, 48, 44, 48, 48, 48, 44, 48, 48, 48>>,
     <<45, 53>>,
     <<48>>,
     <<48, 46, 48, 48>>,
     <<49, 48, 44, 48, 48, 48, 44, 48, 48, 49>>,
     <<49, 48, 48, 48, 48, 48, 48, 48, 46, 53>>,
     <<78, 47, 65>>,
     <<>>}

SubscribeParse(raw) ==
    /\ Len(calls) < MaxParseCalls
    /\ InFlight = {}
    /\ faults' = faults
    /\ Commit(Len(calls) + 1, subscribe_start(World, Len(calls) + 1, raw, now))

\* waitForLoadState resolved and extractPrice read priceText from the page:
\* the callback is invoked with a price, a miss returns validationFailed
InitialExtraction(k, priceText) ==
    LET initialPrice == extractPrice(priceText)
        outcome == IF initialPrice.found THEN "hit" ELSE "miss"
        r == subscribe_monInit(World, calls[k], k, outcome, {})
    IN /\ AtPc(k, {"mon_init"})
       /\ PageIsOpen(BM, calls[k].page)
       /\ faults' = faults
       /\ Commit(k, [r EXCEPT !.w.scrapers[k].initial =
                        [extracted |-> TRUE, priceText |-> priceText,
                         price |-> initialPrice,
                         called |-> initialPrice.found]])

NextParse ==
    \/ \E raw \in {ETH, BTC} : SubscribeParse(raw)
    \/ \E k \in DOMAIN calls, ok \in BOOLEAN : LaunchSettled(k, ok)
    \/ \E k \in DOMAIN calls : NewPageSettled(k, "ok")
    \/ \E k \in DOMAIN calls, priceText \in PriceTexts :
            InitialExtraction(k, priceText)
    \/ \E k \in DOMAIN calls, ok \in BOOLEAN : MonitorExposeSettled(k, ok)
    \/ \E k \in DOMAIN calls, ok \in BOOLEAN : SubscribeReleaseSettled(k, ok)

SpecParse == Init /\ [][NextParse]_vars

\* texts of PriceTexts without a digit, with the value 0, with a value above
\* 10,000,000
HasDigit(priceText) == \E i \in 1..Len(priceText) : IsDigit(priceText[i])

ZeroTexts == {<<48>>, <<48, 46, 48, 48>>}

AboveTexts == {<<49, 48, 44, 48, 48, 48, 44, 48, 48, 49>>,
               <<49, 48, 48, 48, 48, 48, 48, 48, 46, 53>>}

\* C37: the initial extraction yields a price only if the parsed value p
\* satisfies 0 < p <= 10,000,000; a text without digits, a parsed 0 and a
\* value above 10,000,000 are misses; after a miss the extractor is not
\* monitoring and its callback was not invoked.
C37_PriceOnlyInRange ==
    \A k \in DOMAIN scrapers :
        LET x == scrapers[k].initial
        IN x.extracted =>
            /\ x.price.found =>
                  /\ 0 < x.price.units
                  /\ x.price.units <= 10000000 * x.price.scale
            /\ (~HasDigit(x.priceText) \/ x.priceText \in ZeroTexts
                   \/ x.priceText \in AboveTexts) => ~x.price.found
            /\ ~x.price.found =>
                  /\ ~scrapers[k].isMonitoring
                  /\ ~x.called
                  /\ scrapers[k].received = <<>>

\* one extractor missed on a value above the limit and one took the limit
\* itself as a price
C37_Witness ==
    \E j, k \in DOMAIN scrapers :
        /\ scrapers[j].initial.extracted
        /\ scrapers[j].initial.priceText \in AboveTexts
        /\ ~scrapers[j].isMonitoring
        /\ scrapers[k].initial.price = [found |-> TRUE, units |-> 10000000, scale |-> 1]
        /\ scrapers[k].isMonitoring

\* C39: for every shard the reference count of its host equals the number
\* of sessions recorded on it and is never negative, also when calls for one
\* symbol overlap.
C39_RefCountEqualsSessions ==
    \A b \in DOMAIN browsers :
        /\ instances[browsers[b]].refCount
              = Cardinality(DOMAIN instances[browsers[b]].pages)
        /\ instances[browsers[b]].refCount >= 0

\* the hosts launched for shard b that are still running
RunningHosts(b) ==
    {i \in DOMAIN instances : instances[i].browserId = b /\ ~instances[i].closed}

\* C40: at most one host runs per shard and it is the one in the pool's map,
\* also when two getSession calls found the shard missing before either
\* launch completed; every session opened on a shard is recorded on it.
C40_OneHostPerShard ==
    \A b \in {getBrowserIdForTicker(tk) : tk \in {ETH, ADA}} :
        /\ Cardinality(RunningHosts(b)) <= 1
        /\ \A i \in RunningHosts(b) : b \in DOMAIN browsers /\ browsers[b] = i

====
